---- MODULE Spec2Model ----
(***************************************************************************)
(* Catalog mutation endpoints of the product/banner admin: create, update, *)
(* delete product, toggle sold-out, create, update, delete banner.  Every  *)
(* await on the relational store or the asset store is one step of the     *)
(* request that issues it, so that requests interleave where the code      *)
(* awaits.                                                                 *)
(***************************************************************************)
EXTENDS Integers, Sequences, FiniteSets, TLC

\* ------------------------------------------------------------------ bounds
MaxSlots == 2        \* requests of one behaviour, each in its slot
MaxFaults == 2       \* store calls that fail in one behaviour
MaxFiles == 2        \* new image files in one request
MaxDetails == 2      \* details entries in one request
MaxKeep == 2         \* length of existing_image_ids / existing_detail_ids

Slots == 1..MaxSlots

\* ------------------------------------------------------------- principals
NoUser == "anonymous"
Principals == {"u1", "u2", "u3"}
Callers == Principals \cup {NoUser}
AdminEmail == "yoon5ye@gmail.com"
Email(u) == IF u \in {"u1", "u2"} THEN AdminEmail ELSE "other@example.com"

\* status returned by requireAdminEmail: 0 when the caller passes
\* the guard that asks for a signed-in user and no more
requireAdminEmailAnyUser(u) == IF u = NoUser THEN 401 ELSE 0
requireAdminEmail(u) ==
    IF u = NoUser THEN 401
    ELSE IF Email(u) # AdminEmail THEN 403
    ELSE 0

\* --------------------------------------------------------------- sequences
SeqToSet(s) == {s[k] : k \in 1..Len(s)}

RECURSIVE SeqsUpTo(_, _)
SeqsUpTo(S, n) ==
    IF n = 0 THEN {<<>>}
    ELSE LET shorter == SeqsUpTo(S, n - 1)
         IN  shorter \cup {Append(s, x) : s \in {t \in shorter : Len(t) = n - 1}, x \in S}

RECURSIVE SortImages(_)
\* existingImagesList.sort((a, b) => a.image_order - b.image_order)
SortImages(S) ==
    IF S = {} THEN <<>>
    ELSE LET m == CHOOSE x \in S : \A y \in S :
                     \/ x.image_order < y.image_order
                     \/ (x.image_order = y.image_order /\ x.image_id <= y.image_id)
         IN  <<m>> \o SortImages(S \ {m})

RECURSIVE SortDetails(_)
\* existingDetailsList.sort((a, b) => a.detail_order - b.detail_order)
SortDetails(S) ==
    IF S = {} THEN <<>>
    ELSE LET m == CHOOSE x \in S : \A y \in S :
                     \/ x.detail_order < y.detail_order
                     \/ (x.detail_order = y.detail_order /\ x.detail_id <= y.detail_id)
         IN  <<m>> \o SortDetails(S \ {m})

\* -------------------------------------------------------------------- slug
Lower(c) == CASE c = "A" -> "a" [] c = "B" -> "b" [] OTHER -> c
\* canonical decomposition: a precomposed letter becomes letter + combining mark,
\* a Hangul syllable becomes its jamo
NFD(c) == CASE c = "e'" -> <<"e", "'">>
            [] c = "na" -> <<"j1", "j2">>
            [] OTHER -> <<c>>
Combining == {"'"}
AlNum == {"a", "b", "e", "1"}

RECURSIVE FlatMapNFD(_)
FlatMapNFD(s) == IF s = <<>> THEN <<>> ELSE NFD(Lower(Head(s))) \o FlatMapNFD(Tail(s))

RECURSIVE StripCombining(_)
StripCombining(s) ==
    IF s = <<>> THEN <<>>
    ELSE (IF Head(s) \in Combining THEN <<>> ELSE <<Head(s)>>) \o StripCombining(Tail(s))

RECURSIVE Hyphenate(_, _)
\* replace(/[^a-z0-9]+/g, "-"): inRun says the previous character was replaced
Hyphenate(s, inRun) ==
    IF s = <<>> THEN <<>>
    ELSE IF Head(s) \in AlNum THEN <<Head(s)>> \o Hyphenate(Tail(s), FALSE)
    ELSE (IF inRun THEN <<>> ELSE <<"-">>) \o Hyphenate(Tail(s), TRUE)

RECURSIVE TrimLeft(_)
TrimLeft(s) == IF s # <<>> /\ Head(s) = "-" THEN TrimLeft(Tail(s)) ELSE s
RECURSIVE TrimRight(_)
TrimRight(s) ==
    IF s # <<>> /\ s[Len(s)] = "-" THEN TrimRight(SubSeq(s, 1, Len(s) - 1)) ELSE s

generateSlug(title) == TrimRight(TrimLeft(Hyphenate(StripCombining(FlatMapNFD(title)), FALSE)))

\* validData.slug || generateSlug(validData.title)
ResolveSlug(in) == IF in.slug # <<>> THEN in.slug ELSE generateSlug(in.title)

\* ----------------------------------------------------------- asset store
NULL == <<"null">>
UrlPrefix(bucket) == <<"storage", "v1", "object", "public", bucket>>
getPublicUrl(bucket, path) == UrlPrefix(bucket) \o path
extractFilePathFromUrl(bucket, url) ==
    IF Len(url) > 5 /\ SubSeq(url, 1, 5) = UrlPrefix(bucket)
    THEN SubSeq(url, 6, Len(url))
    ELSE NULL

Obj(bucket, path) == [bucket |-> bucket, path |-> path]
IsPrefix(p, q) == Len(p) <= Len(q) /\ SubSeq(q, 1, Len(p)) = p

\* remove(paths): the objects named exactly; with folder = TRUE a path also
\* removes the objects below it
StorageRemove(objs, bucket, paths, folder) ==
    {o \in objs :
        ~ (o.bucket = bucket /\
           \E p \in paths : o.path = p \/ (folder /\ IsPrefix(p, o.path)))}

\* list(prefix): the entries directly below the prefix; a file has an id, a
\* folder has none
StorageList(objs, bucket, prefix) ==
    {[name |-> o.path[Len(prefix) + 1], isFile |-> Len(o.path) = Len(prefix) + 1] :
        o \in {x \in objs : x.bucket = bucket /\ IsPrefix(prefix, x.path)
                                              /\ Len(x.path) > Len(prefix)}}

\* ------------------------------------------------------------------ state
VARIABLES
    products,        \* rows of table products
    productImages,   \* rows of table product_images
    productDetails,  \* rows of table product_details
    banners,         \* rows of table banners
    objects,         \* objects of the asset store, [bucket, path]
    ids,             \* identity sequences and the clock that names uploads
    req,             \* the request handled in each slot
    faults           \* store calls that have failed so far

vars == <<products, productImages, productDetails, banners, objects, ids, req, faults>>
stores == <<products, productImages, productDetails, banners, objects>>

NoRow == [product_id |-> 0]
NoInput == [none |-> TRUE]

Idle == [op |-> "none", pc |-> "idle", user |-> NoUser, in |-> NoInput,
         status |-> 0, reason |-> "", product_id |-> 0, existing |-> NoRow,
         slug |-> <<>>, uploadedFiles |-> <<>>, imageUrls |-> <<>>,
         existingImages |-> <<>>, toDelete |-> <<>>, keep |-> <<>>,
         existingDetails |-> <<>>, detailRecords |-> <<>>, listed |-> {},
         i |-> 0, rowOps |-> 0, objOps |-> 0, uploads |-> 0,
         retStatus |-> 0, retReason |-> "", rollback |-> FALSE, sold_out |-> FALSE,
         slot |-> "", ts |-> 0, before |-> NoRow, result |-> <<>>]

\* ---------------------------------------------------------------- helpers
\* both stores as a request finds them when it arrives
Snapshot ==
    [products |-> products, productImages |-> productImages,
     productDetails |-> productDetails, banners |-> banners, objects |-> objects]
Done(q, status, reason) == [q EXCEPT !.pc = "done", !.status = status, !.reason = reason]

\* a request starts in a free slot; lim is the number of slots in use
CanStart(r, lim) ==
    /\ r <= lim
    /\ req[r].pc = "idle"

\* what a store call can answer: its result, an error value, or a thrown exception
Outcomes == IF faults < MaxFaults THEN {"ok", "error", "throw"} ELSE {"ok"}
OutcomesNoThrow == Outcomes \ {"throw"}
Fault(o) == faults' = IF o = "ok" THEN faults ELSE faults + 1

Str(n) == ToString(n)
ProductExists(pid) == \E p \in products : p.product_id = pid
ProductRow(pid) == CHOOSE p \in products : p.product_id = pid

\* existingProduct.created_by !== user.id is refused
VerifyOwnershipSkipped(existingProduct, user) == TRUE
VerifyOwnership(existingProduct, user) == existingProduct.created_by = user

\* slug: text().notNull().unique(): may a row with this id take this slug
SlugUniqueUnchecked(slug, pid) == TRUE
SlugUnique(slug, pid) == ~ \E p \in products : p.slug = slug /\ p.product_id # pid

\* onDelete: "cascade" of product_images.product_id and product_details.product_id
CascadeImages(pid) == {x \in productImages : x.product_id # pid}
CascadeDetails(pid) == {x \in productDetails : x.product_id # pid}

\* ------------------------------------------------------------------ inputs
\* title, supplied slug (<<>> when absent) and price of a product form
ScalarInputs ==
    { [title |-> <<"A">>, slug |-> <<>>, price |-> 1],
      [title |-> <<"a">>, slug |-> <<>>, price |-> 2],
      [title |-> <<"a">>, slug |-> <<"b">>, price |-> 1],
      [title |-> <<"e'", " ", "B">>, slug |-> <<>>, price |-> 1] }
\* scalars the schemas refuse: no title, a price that is not positive
BadScalarInputs ==
    { [title |-> <<>>, slug |-> <<>>, price |-> 1],
      [title |-> <<"a">>, slug |-> <<>>, price |-> 0] }

\* a details entry: whether it carries an image file, its detail_id (0: none)
\* and its title and description
DetailTexts == {"t"}
DetailEntries(idSet) == [image : BOOLEAN, detail_id : idSet, text : DetailTexts]

CreateInputs ==
    { [title |-> sc.title, slug |-> sc.slug, price |-> sc.price,
       images |-> n, details |-> d, filesOk |-> ok] :
        sc \in ScalarInputs \cup BadScalarInputs, n \in 0..MaxFiles,
        d \in SeqsUpTo(DetailEntries({0}), MaxDetails), ok \in BOOLEAN }

\* a create form whose title is written in Hangul syllables, with no slug
HangulInputs ==
    { [title |-> <<"na", " ", "na">>, slug |-> <<>>, price |-> 1,
       images |-> 1, details |-> <<>>, filesOk |-> TRUE] }

\* A variant of the schema without the minimum of one image
productSchemaAnyImages(in) == Len(in.title) >= 1 /\ in.price > 0

\* productSchema.safeParse
productSchema(in) == Len(in.title) >= 1 /\ in.price > 0 /\ in.images >= 1

\* ---------------------------------------------------------- create product
\* A request is one the route hands to the action with a method requireMethod
\* admits.  requireAdminEmail comes before request.formData(): a caller it
\* rejects has had no form read
CreateBegin(r, lim, Users, Forms) ==
    /\ CanStart(r, lim)
    /\ \E u \in Users :
         LET q == [Idle EXCEPT !.op = "create", !.user = u, !.before = Snapshot]
             a == requireAdminEmail(u)
         IN  IF a # 0 THEN req' = [req EXCEPT ![r] = Done(q, a, "auth")]
             ELSE \E in \in Forms :
                    req' = [req EXCEPT ![r] =
                        IF ~ productSchema(in)
                        THEN Done([q EXCEPT !.in = in], 400, "validation")
                        ELSE [q EXCEPT !.in = in, !.pc = "slugCheck",
                                       !.slug = ResolveSlug(in)]]
    /\ UNCHANGED <<stores, ids, faults>>

CreateSlugCheck(r) ==
    LET q == req[r] IN
    /\ q.op = "create" /\ q.pc = "slugCheck"
    /\ req' = [req EXCEPT ![r] =
           IF \E p \in products : p.slug = q.slug THEN Done(q, 400, "conflict")
           ELSE IF ~ q.in.filesOk THEN Done(q, 400, "file")
           ELSE [q EXCEPT !.pc = "insertProduct"]]
    /\ UNCHANGED <<stores, ids, faults>>

CreateInsertProduct(r) ==
    LET q == req[r]
        pid == ids.product + 1
        row == [product_id |-> pid, title |-> q.in.title, price |-> q.in.price,
                slug |-> q.slug, sold_out |-> FALSE, created_by |-> q.user]
    IN
    /\ q.op = "create" /\ q.pc = "insertProduct"
    /\ \E o \in OutcomesNoThrow :
         /\ Fault(o)
         /\ IF o = "ok" /\ SlugUnique(q.slug, 0)
            THEN /\ products' = products \cup {row}
                 /\ ids' = [ids EXCEPT !.product = pid]
                 /\ req' = [req EXCEPT ![r] = [q EXCEPT !.pc = "uploadImage",
                               !.product_id = pid, !.i = 0, !.rowOps = @ + 1]]
            ELSE /\ req' = [req EXCEPT ![r] =
                               Done([q EXCEPT !.rowOps = @ + 1], 400, "insertProduct")]
                 /\ UNCHANGED <<products, ids>>
    /\ UNCHANGED <<productImages, productDetails, banners, objects>>

\* where a failed step of create or update goes: the in-line cleanup of the
\* uploaded files when there are any, then the row rollback, then the response
AfterError(q, status, reason, rollback) ==
    LET q1 == [q EXCEPT !.retStatus = status, !.retReason = reason, !.rollback = rollback]
    IN  IF q.uploadedFiles # <<>> THEN [q1 EXCEPT !.pc = "cleanup"]
        ELSE IF rollback THEN [q1 EXCEPT !.pc = "rollbackProduct"]
        ELSE Done(q1, status, reason)

\* the catch block: cleanup of the uploaded files when there are any
AfterThrow(q) ==
    LET q1 == [q EXCEPT !.retStatus = 500, !.retReason = "thrown",
                        !.rollback = (q.op = "create")]
    IN  IF q.uploadedFiles # <<>> THEN [q1 EXCEPT !.pc = "catchCleanup"]
        ELSE IF q1.rollback THEN [q1 EXCEPT !.pc = "rollbackProduct"]
        ELSE Done(q1, 500, "thrown")

ImagePath(pid, name) == <<"products", Str(pid), Str(name)>>
DetailPath(pid, i, name) == <<"products", Str(pid), "details", Str(i), Str(name)>>

CreateUploadImage(r) ==
    LET q == req[r]
        path == ImagePath(q.product_id, ids.clock + 1)
    IN
    /\ q.op = "create" /\ q.pc = "uploadImage"
    /\ \E o \in Outcomes :
         /\ Fault(o)
         /\ IF o = "ok"
            THEN /\ objects' = objects \cup {Obj("products", path)}
                 /\ ids' = [ids EXCEPT !.clock = @ + 1]
                 /\ req' = [req EXCEPT ![r] = [q EXCEPT
                        !.uploadedFiles = Append(@, path),
                        !.imageUrls = Append(@, [url |-> getPublicUrl("products", path),
                                                 order |-> q.i]),
                        !.i = @ + 1, !.objOps = @ + 1, !.uploads = @ + 1,
                        !.pc = IF q.i + 1 < q.in.images THEN "uploadImage"
                               ELSE "insertImages"]]
            ELSE /\ req' = [req EXCEPT ![r] =
                        LET q1 == [q EXCEPT !.objOps = @ + 1]
                        IN  IF o = "error" THEN AfterError(q1, 400, "upload", FALSE)
                            ELSE AfterThrow(q1)]
                 /\ UNCHANGED <<objects, ids>>
    /\ UNCHANGED <<products, productImages, productDetails, banners>>

CreateInsertImages(r) ==
    LET q == req[r]
        n == Len(q.imageUrls)
        rows == {[image_id |-> ids.image + k, product_id |-> q.product_id,
                  image_url |-> q.imageUrls[k].url,
                  image_order |-> q.imageUrls[k].order] : k \in 1..n}
    IN
    /\ q.op = "create" /\ q.pc = "insertImages"
    /\ \E o \in Outcomes :
         /\ Fault(o)
         /\ IF o = "ok" /\ ProductExists(q.product_id)
            THEN /\ productImages' = productImages \cup rows
                 /\ ids' = [ids EXCEPT !.image = @ + n]
                 /\ req' = [req EXCEPT ![r] =
                        LET q1 == [q EXCEPT !.rowOps = @ + 1, !.i = 0]
                        IN  IF Len(q.in.details) > 0 THEN [q1 EXCEPT !.pc = "detailLoop"]
                            ELSE Done(q1, 200, "ok")]
            ELSE /\ req' = [req EXCEPT ![r] =
                        LET q1 == [q EXCEPT !.rowOps = @ + 1]
                        IN  IF o = "throw" THEN AfterThrow(q1)
                            ELSE AfterError(q1, 400, "insertImages", TRUE)]
                 /\ UNCHANGED <<productImages, ids>>
    /\ UNCHANGED <<products, productDetails, banners, objects>>

\* one pass of the details loop: the upload of the entry's image when it has one
CreateDetailLoop(r) ==
    LET q == req[r]
        d == q.in.details[q.i + 1]
        path == DetailPath(q.product_id, q.i, ids.clock + 1)
        next == IF q.i + 1 < Len(q.in.details) THEN "detailLoop" ELSE "insertDetails"
        rec(url) == [detail_text |-> d.text, detail_image_url |-> url, detail_order |-> q.i]
    IN
    /\ q.op = "create" /\ q.pc = "detailLoop"
    /\ IF ~ d.image
       THEN /\ req' = [req EXCEPT ![r] = [q EXCEPT
                   !.detailRecords = Append(@, rec(NULL)), !.i = @ + 1, !.pc = next]]
            /\ UNCHANGED <<objects, ids, faults>>
       ELSE \E o \in Outcomes :
            /\ Fault(o)
            /\ IF o = "ok"
               THEN /\ objects' = objects \cup {Obj("products", path)}
                    /\ ids' = [ids EXCEPT !.clock = @ + 1]
                    /\ req' = [req EXCEPT ![r] = [q EXCEPT
                           !.uploadedFiles = Append(@, path),
                           !.detailRecords =
                               Append(@, rec(getPublicUrl("products", path))),
                           !.i = @ + 1, !.objOps = @ + 1, !.uploads = @ + 1,
                           !.pc = next]]
               ELSE /\ req' = [req EXCEPT ![r] =
                           LET q1 == [q EXCEPT !.objOps = @ + 1]
                           IN  IF o = "error"
                               THEN AfterError(q1, 400, "uploadDetail", FALSE)
                               ELSE AfterThrow(q1)]
                    /\ UNCHANGED <<objects, ids>>
    /\ UNCHANGED <<products, productImages, productDetails, banners>>

DetailRows(q) ==
    {[detail_id |-> ids.detail + k, product_id |-> q.product_id,
      detail_text |-> q.detailRecords[k].detail_text,
      detail_image_url |-> q.detailRecords[k].detail_image_url,
      detail_order |-> q.detailRecords[k].detail_order] : k \in 1..Len(q.detailRecords)}

CreateInsertDetails(r) ==
    LET q == req[r] IN
    /\ q.op = "create" /\ q.pc = "insertDetails"
    /\ \E o \in Outcomes :
         /\ Fault(o)
         /\ IF o = "ok" /\ ProductExists(q.product_id)
            THEN /\ productDetails' = productDetails \cup DetailRows(q)
                 /\ ids' = [ids EXCEPT !.detail = @ + Len(q.detailRecords)]
                 /\ req' = [req EXCEPT ![r] = Done([q EXCEPT !.rowOps = @ + 1], 200, "ok")]
            ELSE /\ req' = [req EXCEPT ![r] =
                        LET q1 == [q EXCEPT !.rowOps = @ + 1]
                        IN  IF o = "throw" THEN AfterThrow(q1)
                            ELSE AfterError(q1, 400, "insertDetails", TRUE)]
                 /\ UNCHANGED <<productDetails, ids>>
    /\ UNCHANGED <<products, productImages, banners, objects>>

\* remove(uploadedFiles) where the failing step is handled
CreateCleanup(r) ==
    LET q == req[r] IN
    /\ q.op = "create" /\ q.pc = "cleanup"
    /\ \E o \in Outcomes :
         /\ Fault(o)
         /\ objects' = IF o = "ok"
                       THEN StorageRemove(objects, "products", SeqToSet(q.uploadedFiles), FALSE)
                       ELSE objects
         /\ req' = [req EXCEPT ![r] =
                LET q1 == [q EXCEPT !.objOps = @ + 1]
                IN  IF o = "throw" THEN [AfterThrow(q1) EXCEPT !.pc = "catchCleanup"]
                    ELSE IF q.rollback THEN [q1 EXCEPT !.pc = "rollbackProduct"]
                    ELSE Done(q1, q.retStatus, q.retReason)]
    /\ UNCHANGED <<products, productImages, productDetails, banners, ids>>

\* the catch block's remove(uploadedFiles), its own failure caught and logged
CreateCatchCleanup(r) ==
    LET q == req[r] IN
    /\ q.op = "create" /\ q.pc = "catchCleanup"
    /\ \E o \in Outcomes :
         /\ Fault(o)
         /\ objects' = IF o = "ok"
                       THEN StorageRemove(objects, "products", SeqToSet(q.uploadedFiles), FALSE)
                       ELSE objects
         /\ req' = [req EXCEPT ![r] = [q EXCEPT !.objOps = @ + 1, !.pc = "rollbackProduct"]]
    /\ UNCHANGED <<products, productImages, productDetails, banners, ids>>

\* client.from("products").delete().eq("product_id", productId), its failure logged
CreateRollbackProduct(r) ==
    LET q == req[r] IN
    /\ q.op = "create" /\ q.pc = "rollbackProduct"
    /\ \E o \in Outcomes :
         /\ Fault(o)
         /\ IF o = "ok"
            THEN /\ products' = {p \in products : p.product_id # q.product_id}
                 /\ productImages' = CascadeImages(q.product_id)
                 /\ productDetails' = CascadeDetails(q.product_id)
            ELSE UNCHANGED <<products, productImages, productDetails>>
         /\ req' = [req EXCEPT ![r] =
                Done([q EXCEPT !.rowOps = @ + 1], q.retStatus, q.retReason)]
    /\ UNCHANGED <<banners, objects, ids>>

CreateProduct(r) ==
    \/ CreateSlugCheck(r)
    \/ CreateInsertProduct(r)
    \/ CreateUploadImage(r)
    \/ CreateInsertImages(r)
    \/ CreateDetailLoop(r)
    \/ CreateInsertDetails(r)
    \/ CreateCleanup(r)
    \/ CreateCatchCleanup(r)
    \/ CreateRollbackProduct(r)


\* ---------------------------------------------------------- update product
\* validData.images and validData.details pass the size and MIME checks
FilesValid(in) == in.filesOk

\* productUpdateSchema.safeParse: no rule on the number of images
productUpdateSchema(in) == in.product_id > 0 /\ Len(in.title) >= 1 /\ in.price > 0

UpdateBegin(r, lim, Users, Forms) ==
    /\ CanStart(r, lim)
    /\ \E u \in Users :
         LET q == [Idle EXCEPT !.op = "update", !.user = u, !.before = Snapshot]
             a == requireAdminEmail(u)
         IN  IF a # 0 THEN req' = [req EXCEPT ![r] = Done(q, a, "auth")]
             ELSE \E in \in Forms :
                    req' = [req EXCEPT ![r] =
                        IF ~ productUpdateSchema(in)
                        THEN Done([q EXCEPT !.in = in], 400, "validation")
                        ELSE [q EXCEPT !.in = in, !.product_id = in.product_id,
                                       !.pc = "loadProduct"]]
    /\ UNCHANGED <<stores, ids, faults>>

UpdateLoadProduct(r) ==
    LET q == req[r] IN
    /\ q.op = "update" /\ q.pc = "loadProduct"
    /\ req' = [req EXCEPT ![r] =
           IF ~ ProductExists(q.product_id) THEN Done(q, 404, "notFound")
           ELSE LET existingProduct == ProductRow(q.product_id)
                    slug == ResolveSlug(q.in)
                    q1 == [q EXCEPT !.existing = existingProduct, !.slug = slug]
                IN  IF ~ VerifyOwnership(existingProduct, q.user) THEN Done(q1, 403, "forbidden")
                    ELSE IF slug # existingProduct.slug THEN [q1 EXCEPT !.pc = "slugCheck"]
                    ELSE IF ~ FilesValid(q.in) THEN Done(q1, 400, "file")
                    ELSE [q1 EXCEPT !.pc = "loadImages"]]
    /\ UNCHANGED <<stores, ids, faults>>

\* A variant of the lookup that never reports a conflict
slugConflictIgnored(slug, product_id) == FALSE

\* select().from(products).where(eq(products.slug, slug)):
\* slugConflict && slugConflict.product_id !== validData.product_id
slugConflict(slug, product_id) ==
    \E p \in products : p.slug = slug /\ p.product_id # product_id

UpdateSlugCheck(r) ==
    LET q == req[r] IN
    /\ q.op = "update" /\ q.pc = "slugCheck"
    /\ req' = [req EXCEPT ![r] =
           IF slugConflict(q.slug, q.product_id)
           THEN Done(q, 400, "conflict")
           ELSE IF ~ FilesValid(q.in) THEN Done(q, 400, "file")
           ELSE [q EXCEPT !.pc = "loadImages"]]
    /\ UNCHANGED <<stores, ids, faults>>

\* A variant that takes the images to delete from the whole table
imagesToDeleteAnyProduct(existingImages, existing_image_ids) ==
    SelectSeq(SortImages(productImages),
              LAMBDA img : img.image_id \notin SeqToSet(existing_image_ids))

\* existingImages.filter(img => !existing_image_ids.includes(img.image_id))
imagesToDelete(existingImages, existing_image_ids) ==
    SelectSeq(existingImages, LAMBDA img : img.image_id \notin SeqToSet(existing_image_ids))

\* A variant that keeps the submitted images in the order the store returned them
existingImagesToKeepStoredOrder(existingImages, existing_image_ids) ==
    SelectSeq(existingImages, LAMBDA img : img.image_id \in SeqToSet(existing_image_ids))

RECURSIVE existingImagesToKeep(_, _)
\* existing_image_ids.map(id => existingImages.find(...)).filter(img => img !== undefined)
existingImagesToKeep(existingImages, existing_image_ids) ==
    IF existing_image_ids = <<>> THEN <<>>
    ELSE LET id == Head(existing_image_ids)
             found == SelectSeq(existingImages, LAMBDA img : img.image_id = id)
         IN  (IF found = <<>> THEN <<>> ELSE <<found[1]>>)
             \o existingImagesToKeep(existingImages, Tail(existing_image_ids))

\* the step after the deletion of the images that are not kept
AfterImageDelete(q) ==
    IF q.keep # <<>> THEN [q EXCEPT !.pc = "reorder", !.i = 0]
    ELSE IF q.in.images > 0 THEN [q EXCEPT !.pc = "uploadNew", !.i = 0]
    ELSE [q EXCEPT !.pc = "loadDetails", !.i = 0]

UpdateLoadImages(r) ==
    LET q == req[r]
        existingImages == SortImages({x \in productImages : x.product_id = q.product_id})
        del == imagesToDelete(existingImages, q.in.existing_image_ids)
        q1 == [q EXCEPT !.existingImages = existingImages, !.toDelete = del, !.i = 0,
                        !.keep = existingImagesToKeep(existingImages, q.in.existing_image_ids)]
    IN
    /\ q.op = "update" /\ q.pc = "loadImages"
    /\ req' = [req EXCEPT ![r] =
           IF del # <<>> THEN [q1 EXCEPT !.pc = "removeOld"]
           ELSE IF q.in.existing_image_ids = <<>> /\ q.in.images > 0
           THEN [q1 EXCEPT !.pc = "deleteImages"]
           ELSE AfterImageDelete(q1)]
    /\ UNCHANGED <<stores, ids, faults>>

\* storage remove of one image that is not kept; a failure is logged
UpdateRemoveOld(r) ==
    LET q == req[r]
        filePath == extractFilePathFromUrl("products", q.toDelete[q.i + 1].image_url)
        q1 == [q EXCEPT !.i = @ + 1,
                        !.pc = IF q.i + 1 < Len(q.toDelete) THEN "removeOld"
                               ELSE "deleteImages"]
    IN
    /\ q.op = "update" /\ q.pc = "removeOld"
    /\ IF filePath = NULL
       THEN /\ req' = [req EXCEPT ![r] = q1]
            /\ UNCHANGED <<objects, faults>>
       ELSE \E o \in Outcomes :
            /\ Fault(o)
            /\ objects' = IF o = "ok"
                          THEN StorageRemove(objects, "products", {filePath}, FALSE)
                          ELSE objects
            /\ req' = [req EXCEPT ![r] = [q1 EXCEPT !.objOps = @ + 1]]
    /\ UNCHANGED <<products, productImages, productDetails, banners, ids>>

UpdateDeleteImages(r) ==
    LET q == req[r]
        gone == IF q.toDelete # <<>>
                THEN {x \in productImages :
                        x.image_id \in {q.toDelete[k].image_id : k \in 1..Len(q.toDelete)}}
                ELSE {x \in productImages : x.product_id = q.product_id}
    IN
    /\ q.op = "update" /\ q.pc = "deleteImages"
    /\ \E o \in Outcomes :
         /\ Fault(o)
         /\ productImages' = IF o = "ok" THEN productImages \ gone ELSE productImages
         /\ req' = [req EXCEPT ![r] =
                LET q1 == [q EXCEPT !.rowOps = @ + 1]
                IN  IF o = "ok" THEN AfterImageDelete(q1)
                    ELSE IF o = "error" THEN Done(q1, 400, "deleteImages")
                    ELSE AfterThrow(q1)]
    /\ UNCHANGED <<products, productDetails, banners, objects, ids>>

\* update({ image_order: i }).eq("image_id", img.image_id)
UpdateReorder(r) ==
    LET q == req[r]
        id == q.keep[q.i + 1].image_id
    IN
    /\ q.op = "update" /\ q.pc = "reorder"
    /\ \E o \in Outcomes :
         /\ Fault(o)
         /\ productImages' =
                IF o = "ok"
                THEN {IF x.image_id = id THEN [x EXCEPT !.image_order = q.i] ELSE x :
                        x \in productImages}
                ELSE productImages
         /\ req' = [req EXCEPT ![r] =
                LET q1 == [q EXCEPT !.rowOps = @ + 1, !.i = @ + 1]
                IN  IF o = "error" THEN Done(q1, 400, "reorder")
                    ELSE IF o = "throw" THEN AfterThrow(q1)
                    ELSE IF q.i + 1 < Len(q.keep) THEN q1
                    ELSE IF q.in.images > 0 THEN [q1 EXCEPT !.pc = "uploadNew", !.i = 0]
                    ELSE [q1 EXCEPT !.pc = "loadDetails", !.i = 0]]
    /\ UNCHANGED <<products, productDetails, banners, objects, ids>>

UpdateUploadNew(r) ==
    LET q == req[r]
        path == ImagePath(q.product_id, ids.clock + 1)
    IN
    /\ q.op = "update" /\ q.pc = "uploadNew"
    /\ \E o \in Outcomes :
         /\ Fault(o)
         /\ IF o = "ok"
            THEN /\ objects' = objects \cup {Obj("products", path)}
                 /\ ids' = [ids EXCEPT !.clock = @ + 1]
                 /\ req' = [req EXCEPT ![r] = [q EXCEPT
                        !.uploadedFiles = Append(@, path), !.objOps = @ + 1,
                        !.uploads = @ + 1, !.pc = "insertNew"]]
            ELSE /\ req' = [req EXCEPT ![r] =
                        LET q1 == [q EXCEPT !.objOps = @ + 1]
                        IN  IF o = "error" THEN AfterError(q1, 400, "upload", FALSE)
                            ELSE AfterThrow(q1)]
                 /\ UNCHANGED <<objects, ids>>
    /\ UNCHANGED <<products, productImages, productDetails, banners>>

\* insert of the row of the file uploaded last, image_order: newImageStartOrder + i
UpdateInsertNew(r) ==
    LET q == req[r]
        path == q.uploadedFiles[Len(q.uploadedFiles)]
        row == [image_id |-> ids.image + 1, product_id |-> q.product_id,
                image_url |-> getPublicUrl("products", path),
                image_order |-> Len(q.keep) + q.i]
    IN
    /\ q.op = "update" /\ q.pc = "insertNew"
    /\ \E o \in Outcomes :
         /\ Fault(o)
         /\ IF o = "ok" /\ ProductExists(q.product_id)
            THEN /\ productImages' = productImages \cup {row}
                 /\ ids' = [ids EXCEPT !.image = @ + 1]
                 /\ req' = [req EXCEPT ![r] = [q EXCEPT !.rowOps = @ + 1, !.i = @ + 1,
                        !.pc = IF q.i + 1 < q.in.images THEN "uploadNew"
                               ELSE "loadDetails"]]
            ELSE /\ req' = [req EXCEPT ![r] =
                        LET q1 == [q EXCEPT !.rowOps = @ + 1]
                        IN  IF o = "throw" THEN AfterThrow(q1)
                            ELSE AfterError(q1, 400, "insertImages", FALSE)]
                 /\ UNCHANGED <<productImages, ids>>
    /\ UNCHANGED <<products, productDetails, banners, objects>>

\* existingDetails.filter(d => !existing_detail_ids.includes(d.detail_id))
detailsToDelete(existingDetails, existing_detail_ids) ==
    SelectSeq(existingDetails, LAMBDA d : d.detail_id \notin SeqToSet(existing_detail_ids))

\* existingDetails.find(d => d.detail_id === detail.detail_id), NoRow when none
FindDetail(existingDetails, detail_id) ==
    LET found == SelectSeq(existingDetails, LAMBDA d : d.detail_id = detail_id)
    IN  IF detail_id = 0 \/ found = <<>> THEN NoRow ELSE found[1]

\* the old object a details entry replaces: NULL when it replaces none
OldDetailPath(q, k) ==
    LET d == q.in.details[k]
        existingDetail == FindDetail(q.existingDetails, d.detail_id)
    IN  IF d.image /\ existingDetail # NoRow /\ existingDetail.detail_image_url # NULL
        THEN extractFilePathFromUrl("products", existingDetail.detail_image_url)
        ELSE NULL

\* A variant of the loop that uploads the new file without removing the old one
DetailPcNoRemoval(q, k) ==
    IF k > Len(q.in.details) THEN "insertDetails"
    ELSE IF ~ q.in.details[k].image THEN "detailKeep"
    ELSE "detailUpload"

\* where the details loop stands before entry k (entries are numbered from 1)
DetailPc(q, k) ==
    IF k > Len(q.in.details) THEN "insertDetails"
    ELSE IF ~ q.in.details[k].image THEN "detailKeep"
    ELSE IF OldDetailPath(q, k) # NULL THEN "detailRemoveOld"
    ELSE "detailUpload"

\* the step after the deletion of the detail rows
AfterDetailDelete(q) ==
    IF Len(q.in.details) > 0 THEN [q EXCEPT !.i = 0, !.pc = DetailPc(q, 1)]
    ELSE [q EXCEPT !.pc = "updateProduct"]

UpdateLoadDetails(r) ==
    LET q == req[r]
        existingDetails == SortDetails({x \in productDetails : x.product_id = q.product_id})
        del == detailsToDelete(existingDetails, q.in.existing_detail_ids)
        withFile == SelectSeq(del, LAMBDA d :
                        /\ d.detail_image_url # NULL
                        /\ extractFilePathFromUrl("products", d.detail_image_url) # NULL)
        q1 == [q EXCEPT !.existingDetails = existingDetails, !.toDelete = withFile, !.i = 0]
    IN
    /\ q.op = "update" /\ q.pc = "loadDetails"
    /\ req' = [req EXCEPT ![r] =
           IF withFile # <<>> THEN [q1 EXCEPT !.pc = "removeOldDetail"]
           ELSE IF del # <<>> \/ Len(q.in.details) > 0 THEN [q1 EXCEPT !.pc = "deleteDetails"]
           ELSE AfterDetailDelete(q1)]
    /\ UNCHANGED <<stores, ids, faults>>

\* storage remove of the image of one detail that is not kept; a failure is logged
UpdateRemoveOldDetail(r) ==
    LET q == req[r]
        filePath == extractFilePathFromUrl("products", q.toDelete[q.i + 1].detail_image_url)
    IN
    /\ q.op = "update" /\ q.pc = "removeOldDetail"
    /\ \E o \in Outcomes :
         /\ Fault(o)
         /\ objects' = IF o = "ok"
                       THEN StorageRemove(objects, "products", {filePath}, FALSE)
                       ELSE objects
         /\ req' = [req EXCEPT ![r] = [q EXCEPT !.objOps = @ + 1, !.i = @ + 1,
                !.pc = IF q.i + 1 < Len(q.toDelete) THEN "removeOldDetail"
                       ELSE "deleteDetails"]]
    /\ UNCHANGED <<products, productImages, productDetails, banners, ids>>

\* delete().eq("product_id", product_id) on product_details
UpdateDeleteDetails(r) ==
    LET q == req[r] IN
    /\ q.op = "update" /\ q.pc = "deleteDetails"
    /\ \E o \in Outcomes :
         /\ Fault(o)
         /\ productDetails' = IF o = "ok" THEN CascadeDetails(q.product_id)
                              ELSE productDetails
         /\ req' = [req EXCEPT ![r] =
                LET q1 == [q EXCEPT !.rowOps = @ + 1]
                IN  IF o = "ok" THEN AfterDetailDelete(q1)
                    ELSE IF o = "error" THEN AfterError(q1, 400, "deleteDetails", FALSE)
                    ELSE AfterThrow(q1)]
    /\ UNCHANGED <<products, productImages, banners, objects, ids>>

\* a details entry without a new file: it keeps the matched detail's image
UpdateDetailKeep(r) ==
    LET q == req[r]
        d == q.in.details[q.i + 1]
        existingDetail == FindDetail(q.existingDetails, d.detail_id)
        url == IF existingDetail # NoRow /\ existingDetail.detail_image_url # NULL
               THEN existingDetail.detail_image_url ELSE NULL
    IN
    /\ q.op = "update" /\ q.pc = "detailKeep"
    /\ req' = [req EXCEPT ![r] = [q EXCEPT
           !.detailRecords = Append(@, [detail_text |-> d.text, detail_image_url |-> url,
                                        detail_order |-> q.i]),
           !.i = @ + 1, !.pc = DetailPc(q, q.i + 2)]]
    /\ UNCHANGED <<stores, ids, faults>>

\* storage remove of the object a details entry replaces; a failure is logged
UpdateDetailRemoveOld(r) ==
    LET q == req[r] IN
    /\ q.op = "update" /\ q.pc = "detailRemoveOld"
    /\ \E o \in Outcomes :
         /\ Fault(o)
         /\ objects' = IF o = "ok"
                       THEN StorageRemove(objects, "products",
                                          {OldDetailPath(q, q.i + 1)}, FALSE)
                       ELSE objects
         /\ req' = [req EXCEPT ![r] = [q EXCEPT !.objOps = @ + 1, !.pc = "detailUpload"]]
    /\ UNCHANGED <<products, productImages, productDetails, banners, ids>>

UpdateDetailUpload(r) ==
    LET q == req[r]
        d == q.in.details[q.i + 1]
        path == DetailPath(q.product_id, q.i, ids.clock + 1)
    IN
    /\ q.op = "update" /\ q.pc = "detailUpload"
    /\ \E o \in Outcomes :
         /\ Fault(o)
         /\ IF o = "ok"
            THEN /\ objects' = objects \cup {Obj("products", path)}
                 /\ ids' = [ids EXCEPT !.clock = @ + 1]
                 /\ req' = [req EXCEPT ![r] = [q EXCEPT
                        !.uploadedFiles = Append(@, path),
                        !.detailRecords = Append(@,
                            [detail_text |-> d.text,
                             detail_image_url |-> getPublicUrl("products", path),
                             detail_order |-> q.i]),
                        !.i = @ + 1, !.objOps = @ + 1, !.uploads = @ + 1,
                        !.pc = DetailPc(q, q.i + 2)]]
            ELSE /\ req' = [req EXCEPT ![r] =
                        LET q1 == [q EXCEPT !.objOps = @ + 1]
                        IN  IF o = "error"
                            THEN AfterError(q1, 400, "uploadDetail", FALSE)
                            ELSE AfterThrow(q1)]
                 /\ UNCHANGED <<objects, ids>>
    /\ UNCHANGED <<products, productImages, productDetails, banners>>

UpdateInsertDetails(r) ==
    LET q == req[r] IN
    /\ q.op = "update" /\ q.pc = "insertDetails"
    /\ \E o \in Outcomes :
         /\ Fault(o)
         /\ IF o = "ok" /\ ProductExists(q.product_id)
            THEN /\ productDetails' = productDetails \cup DetailRows(q)
                 /\ ids' = [ids EXCEPT !.detail = @ + Len(q.detailRecords)]
                 /\ req' = [req EXCEPT ![r] =
                        [q EXCEPT !.rowOps = @ + 1, !.pc = "updateProduct"]]
            ELSE /\ req' = [req EXCEPT ![r] =
                        LET q1 == [q EXCEPT !.rowOps = @ + 1]
                        IN  IF o = "throw" THEN AfterThrow(q1)
                            ELSE AfterError(q1, 400, "insertDetails", FALSE)]
                 /\ UNCHANGED <<productDetails, ids>>
    /\ UNCHANGED <<products, productImages, banners, objects>>

\* A variant of the last store call that leaves the row written although the
\* call is rejected
UpdateProductRowCommitsOnThrow(r) ==
    LET q == req[r] IN
    /\ q.op = "update" /\ q.pc = "updateProduct"
    /\ \E o \in Outcomes \ {"error"} :
         /\ Fault(o)
         /\ products' = {IF p.product_id = q.product_id /\ SlugUnique(q.slug, q.product_id)
                         THEN [p EXCEPT !.title = q.in.title, !.price = q.in.price,
                                        !.slug = q.slug]
                         ELSE p : p \in products}
         /\ IF o = "ok" /\ SlugUnique(q.slug, q.product_id)
            THEN req' = [req EXCEPT ![r] = Done([q EXCEPT !.rowOps = @ + 1], 200, "ok")]
            ELSE req' = [req EXCEPT ![r] = AfterThrow([q EXCEPT !.rowOps = @ + 1])]
    /\ UNCHANGED <<productImages, productDetails, banners, objects, ids>>

\* A variant of the last store call that writes only the columns whose value
\* differs from the row the request loaded
UpdateProductRowChangedOnly(r) ==
    LET q == req[r] IN
    /\ q.op = "update" /\ q.pc = "updateProduct"
    /\ \E o \in Outcomes \ {"error"} :
         /\ Fault(o)
         /\ IF o = "ok" /\ SlugUnique(q.slug, q.product_id)
            THEN /\ products' =
                      {IF p.product_id = q.product_id
                       THEN [p EXCEPT
                               !.title = IF q.in.title # q.existing.title
                                         THEN q.in.title ELSE @,
                               !.price = IF q.in.price # q.existing.price
                                         THEN q.in.price ELSE @,
                               !.slug = IF q.slug # q.existing.slug THEN q.slug ELSE @]
                       ELSE p : p \in products}
                 /\ req' = [req EXCEPT ![r] = Done([q EXCEPT !.rowOps = @ + 1], 200, "ok")]
            ELSE /\ req' = [req EXCEPT ![r] = AfterThrow([q EXCEPT !.rowOps = @ + 1])]
                 /\ UNCHANGED products
    /\ UNCHANGED <<productImages, productDetails, banners, objects, ids>>

\* db.update(products).set({title, price, ..., slug}).where(product_id): it throws
\* when the store refuses the row
UpdateProductRow(r) ==
    LET q == req[r] IN
    /\ q.op = "update" /\ q.pc = "updateProduct"
    /\ \E o \in Outcomes \ {"error"} :
         /\ Fault(o)
         /\ IF o = "ok" /\ SlugUnique(q.slug, q.product_id)
            THEN /\ products' = {IF p.product_id = q.product_id
                                 THEN [p EXCEPT !.title = q.in.title, !.price = q.in.price,
                                                !.slug = q.slug]
                                 ELSE p : p \in products}
                 /\ req' = [req EXCEPT ![r] = Done([q EXCEPT !.rowOps = @ + 1], 200, "ok")]
            ELSE /\ req' = [req EXCEPT ![r] = AfterThrow([q EXCEPT !.rowOps = @ + 1])]
                 /\ UNCHANGED products
    /\ UNCHANGED <<productImages, productDetails, banners, objects, ids>>

\* remove(uploadedFiles) where the failing step is handled
UpdateCleanup(r) ==
    LET q == req[r] IN
    /\ q.op = "update" /\ q.pc = "cleanup"
    /\ \E o \in Outcomes :
         /\ Fault(o)
         /\ objects' = IF o = "ok"
                       THEN StorageRemove(objects, "products", SeqToSet(q.uploadedFiles), FALSE)
                       ELSE objects
         /\ req' = [req EXCEPT ![r] =
                LET q1 == [q EXCEPT !.objOps = @ + 1]
                IN  IF o = "throw" THEN [AfterThrow(q1) EXCEPT !.pc = "catchCleanup"]
                    ELSE Done(q1, q.retStatus, q.retReason)]
    /\ UNCHANGED <<products, productImages, productDetails, banners, ids>>

\* A variant of the catch block that issues its removal again until it succeeds
UpdateCatchCleanupRetrying(r) ==
    LET q == req[r] IN
    /\ q.op = "update" /\ q.pc = "catchCleanup"
    /\ \E o \in Outcomes :
         /\ Fault(o)
         /\ objects' = IF o = "ok"
                       THEN StorageRemove(objects, "products", SeqToSet(q.uploadedFiles), FALSE)
                       ELSE objects
         /\ req' = [req EXCEPT ![r] =
                IF o = "ok" THEN Done([q EXCEPT !.objOps = @ + 1], 500, "thrown")
                ELSE [q EXCEPT !.objOps = @ + 1]]
    /\ UNCHANGED <<products, productImages, productDetails, banners, ids>>

\* the catch block's remove(uploadedFiles), its own failure caught and logged
UpdateCatchCleanup(r) ==
    LET q == req[r] IN
    /\ q.op = "update" /\ q.pc = "catchCleanup"
    /\ \E o \in Outcomes :
         /\ Fault(o)
         /\ objects' = IF o = "ok"
                       THEN StorageRemove(objects, "products", SeqToSet(q.uploadedFiles), FALSE)
                       ELSE objects
         /\ req' = [req EXCEPT ![r] = Done([q EXCEPT !.objOps = @ + 1], 500, "thrown")]
    /\ UNCHANGED <<products, productImages, productDetails, banners, ids>>

UpdateProduct(r) ==
    \/ UpdateLoadProduct(r)
    \/ UpdateSlugCheck(r)
    \/ UpdateLoadImages(r)
    \/ UpdateRemoveOld(r)
    \/ UpdateDeleteImages(r)
    \/ UpdateReorder(r)
    \/ UpdateUploadNew(r)
    \/ UpdateInsertNew(r)
    \/ UpdateLoadDetails(r)
    \/ UpdateRemoveOldDetail(r)
    \/ UpdateDeleteDetails(r)
    \/ UpdateDetailKeep(r)
    \/ UpdateDetailRemoveOld(r)
    \/ UpdateDetailUpload(r)
    \/ UpdateInsertDetails(r)
    \/ UpdateProductRow(r)
    \/ UpdateCleanup(r)
    \/ UpdateCatchCleanup(r)

\* ---------------------------------------------------------- delete product
deleteProductSchema(in) == in.product_id > 0

DeleteBegin(r, lim, Users, Forms) ==
    /\ CanStart(r, lim)
    /\ \E u \in Users :
         LET q == [Idle EXCEPT !.op = "delete", !.user = u, !.before = Snapshot]
             a == requireAdminEmail(u)
         IN  IF a # 0 THEN req' = [req EXCEPT ![r] = Done(q, a, "auth")]
             ELSE \E in \in Forms :
                    req' = [req EXCEPT ![r] =
                        IF ~ deleteProductSchema(in)
                        THEN Done([q EXCEPT !.in = in], 400, "validation")
                        ELSE [q EXCEPT !.in = in, !.product_id = in.product_id,
                                       !.pc = "loadProduct"]]
    /\ UNCHANGED <<stores, ids, faults>>

DeleteLoadProduct(r) ==
    LET q == req[r] IN
    /\ q.op = "delete" /\ q.pc = "loadProduct"
    /\ req' = [req EXCEPT ![r] =
           IF ~ ProductExists(q.product_id) THEN Done(q, 404, "notFound")
           ELSE LET existingProduct == ProductRow(q.product_id)
                    q1 == [q EXCEPT !.existing = existingProduct]
                IN  IF ~ VerifyOwnership(existingProduct, q.user) THEN Done(q1, 403, "forbidden")
                    ELSE [q1 EXCEPT !.pc = "list"]]
    /\ UNCHANGED <<stores, ids, faults>>

\* the folder the delete endpoint lists and removes: `${product_id}`
ProductFolder(pid) == <<Str(pid)>>

\* collectFiles(files, `${product_id}`): a file and a folder both give prefix/name
collectFiles(files, prefix) == {prefix \o <<f.name>> : f \in files}

\* storage list of the product folder; a list error leaves files empty
DeleteList(r) ==
    LET q == req[r]
        files == StorageList(objects, "products", ProductFolder(q.product_id))
    IN
    /\ q.op = "delete" /\ q.pc = "list"
    /\ \E o \in Outcomes :
         /\ Fault(o)
         /\ req' = [req EXCEPT ![r] =
                IF o = "throw" THEN Done(q, 500, "thrown")
                ELSE [q EXCEPT !.listed = IF o = "ok"
                                          THEN collectFiles(files, ProductFolder(q.product_id))
                                          ELSE {},
                               !.pc = "removeListed"]]
    /\ UNCHANGED <<stores, ids>>

\* if (filePaths.length > 0) remove(filePaths); an error is logged.  Whether a
\* folder path removes what is below it is the store's choice
DeleteRemoveListed(r) ==
    LET q == req[r] IN
    /\ q.op = "delete" /\ q.pc = "removeListed"
    /\ IF q.listed = {}
       THEN /\ req' = [req EXCEPT ![r] = [q EXCEPT !.pc = "removeFolder"]]
            /\ UNCHANGED <<objects, faults>>
       ELSE \E o \in Outcomes, folder \in BOOLEAN :
              /\ Fault(o)
              /\ objects' = IF o = "ok"
                            THEN StorageRemove(objects, "products", q.listed, folder)
                            ELSE objects
              /\ req' = [req EXCEPT ![r] =
                     LET q1 == [q EXCEPT !.objOps = @ + 1]
                     IN  IF o = "throw" THEN Done(q1, 500, "thrown")
                         ELSE [q1 EXCEPT !.pc = "removeFolder"]]
    /\ UNCHANGED <<products, productImages, productDetails, banners, ids>>

\* remove([`${product_id}`]); every failure is logged
DeleteRemoveFolder(r) ==
    LET q == req[r] IN
    /\ q.op = "delete" /\ q.pc = "removeFolder"
    /\ \E o \in Outcomes, folder \in BOOLEAN :
         /\ Fault(o)
         /\ objects' = IF o = "ok"
                       THEN StorageRemove(objects, "products",
                                          {ProductFolder(q.product_id)}, folder)
                       ELSE objects
         /\ req' = [req EXCEPT ![r] = [q EXCEPT !.objOps = @ + 1, !.pc = "deleteRow"]]
    /\ UNCHANGED <<products, productImages, productDetails, banners, ids>>

\* db.delete(products).where(product_id); the children go by the cascade
DeleteRow(r) ==
    LET q == req[r] IN
    /\ q.op = "delete" /\ q.pc = "deleteRow"
    /\ \E o \in Outcomes \ {"error"} :
         /\ Fault(o)
         /\ IF o = "ok"
            THEN /\ products' = {p \in products : p.product_id # q.product_id}
                 /\ productImages' = CascadeImages(q.product_id)
                 /\ productDetails' = CascadeDetails(q.product_id)
                 /\ req' = [req EXCEPT ![r] = Done([q EXCEPT !.rowOps = @ + 1], 302, "ok")]
            ELSE /\ req' = [req EXCEPT ![r] = Done([q EXCEPT !.rowOps = @ + 1], 500, "thrown")]
                 /\ UNCHANGED <<products, productImages, productDetails>>
    /\ UNCHANGED <<banners, objects, ids>>

DeleteProduct(r) ==
    \/ DeleteLoadProduct(r)
    \/ DeleteList(r)
    \/ DeleteRemoveListed(r)
    \/ DeleteRemoveFolder(r)
    \/ DeleteRow(r)

\* ---------------------------------------------------------- toggle sold-out
toggleSoldOutSchema(in) == in.product_id > 0

ToggleBegin(r, lim, Users, Forms) ==
    /\ CanStart(r, lim)
    /\ \E u \in Users :
         LET q == [Idle EXCEPT !.op = "toggle", !.user = u, !.before = Snapshot]
             a == requireAdminEmail(u)
         IN  IF a # 0 THEN req' = [req EXCEPT ![r] = Done(q, a, "auth")]
             ELSE \E in \in Forms :
                    req' = [req EXCEPT ![r] =
                        IF ~ toggleSoldOutSchema(in)
                        THEN Done([q EXCEPT !.in = in], 400, "validation")
                        ELSE [q EXCEPT !.in = in, !.product_id = in.product_id,
                                       !.pc = "loadProduct"]]
    /\ UNCHANGED <<stores, ids, faults>>

ToggleLoadProduct(r) ==
    LET q == req[r] IN
    /\ q.op = "toggle" /\ q.pc = "loadProduct"
    /\ req' = [req EXCEPT ![r] =
           IF ~ ProductExists(q.product_id) THEN Done(q, 404, "notFound")
           ELSE LET existingProduct == ProductRow(q.product_id)
                    q1 == [q EXCEPT !.existing = existingProduct]
                IN  IF ~ VerifyOwnership(existingProduct, q.user) THEN Done(q1, 403, "forbidden")
                    ELSE [q1 EXCEPT !.pc = "write"]]
    /\ UNCHANGED <<stores, ids, faults>>

\* A variant that marks the product sold out whatever it read
ToggledValueAlwaysSoldOut(existingProduct) == TRUE

\* the value the toggle writes: the negation of the value it read
ToggledValue(existingProduct) == ~ existingProduct.sold_out

\* db.update(products).set({ sold_out: !existingProduct.sold_out }).returning()
ToggleWrite(r) ==
    LET q == req[r] IN
    /\ q.op = "toggle" /\ q.pc = "write"
    /\ \E o \in Outcomes \ {"error"} :
         /\ Fault(o)
         /\ IF o = "ok" /\ ProductExists(q.product_id)
            THEN /\ products' = {IF p.product_id = q.product_id
                                 THEN [p EXCEPT !.sold_out = ToggledValue(q.existing)]
                                 ELSE p : p \in products}
                 /\ req' = [req EXCEPT ![r] =
                        Done([q EXCEPT !.rowOps = @ + 1,
                                       !.sold_out = ToggledValue(q.existing)], 200, "ok")]
            ELSE /\ req' = [req EXCEPT ![r] = Done([q EXCEPT !.rowOps = @ + 1], 500, "thrown")]
                 /\ UNCHANGED products
    /\ UNCHANGED <<productImages, productDetails, banners, objects, ids>>

ToggleSoldOut(r) ==
    \/ ToggleLoadProduct(r)
    \/ ToggleWrite(r)

\* ------------------------------------------------------------------ banners
BannerExists(bid) == \E b \in banners : b.banner_id = bid
BannerRow(bid) == CHOOSE b \in banners : b.banner_id = bid
BannerPath(ts, slot) == <<"banners", Str(ts) \o "-" \o slot>>

\* getMaxDisplayOrder: 0 when there is no banner
getMaxDisplayOrder ==
    IF banners = {} THEN 0
    ELSE (CHOOSE b \in banners : \A c \in banners : c.display_order <= b.display_order).display_order

\* display_order: z.coerce.number().int().optional() applied to
\* formData.get("display_order"): the value is Number(field), and a form without
\* the field gives null, for which Number is 0; only undefined, which
\* formData.get never returns, would be left undefined
coerceDisplayOrder(in) == IF in.order_given THEN in.display_order ELSE 0

\* bannerSchema and the file checks that follow it: both files present
bannerSchema(in) == in.mobile /\ in.desktop

BannerCreateBegin(r, lim, Users, Forms) ==
    /\ CanStart(r, lim)
    /\ \E u \in Users :
         LET q == [Idle EXCEPT !.op = "bannerCreate", !.user = u, !.before = Snapshot]
             a == requireAdminEmail(u)
         IN  IF a # 0 THEN req' = [req EXCEPT ![r] = Done(q, a, "auth")]
             ELSE \E in \in Forms :
                    req' = [req EXCEPT ![r] =
                        LET q1 == [q EXCEPT !.in = in]
                        IN  IF ~ bannerSchema(in) THEN Done(q1, 400, "validation")
                            ELSE IF ~ (in.mobileOk /\ in.desktopOk) THEN Done(q1, 400, "file")
                            ELSE [q1 EXCEPT !.pc = "uploadMobile",
                                            !.i = coerceDisplayOrder(in)]]
    /\ UNCHANGED <<stores, ids, faults>>

\* one timestamp names both files
BannerCreateUploadMobile(r) ==
    LET q == req[r]
        ts == ids.clock + 1
        path == BannerPath(ts, "mobile")
    IN
    /\ q.op = "bannerCreate" /\ q.pc = "uploadMobile"
    /\ \E o \in Outcomes :
         /\ Fault(o)
         /\ ids' = [ids EXCEPT !.clock = ts]
         /\ objects' = IF o = "ok" THEN objects \cup {Obj("banners", path)} ELSE objects
         /\ req' = [req EXCEPT ![r] =
                LET q1 == [q EXCEPT !.objOps = @ + 1, !.ts = ts]
                IN  IF o = "ok"
                    THEN [q1 EXCEPT !.uploadedFiles = Append(@, path), !.uploads = @ + 1,
                                    !.pc = "uploadDesktop"]
                    ELSE IF o = "error" THEN Done(q1, 400, "upload")
                    ELSE AfterThrow(q1)]
    /\ UNCHANGED <<products, productImages, productDetails, banners>>

BannerCreateUploadDesktop(r) ==
    LET q == req[r]
        path == BannerPath(q.ts, "desktop")
    IN
    /\ q.op = "bannerCreate" /\ q.pc = "uploadDesktop"
    /\ \E o \in Outcomes :
         /\ Fault(o)
         /\ objects' = IF o = "ok" THEN objects \cup {Obj("banners", path)} ELSE objects
         /\ req' = [req EXCEPT ![r] =
                LET q1 == [q EXCEPT !.objOps = @ + 1]
                IN  IF o = "ok"
                    THEN [q1 EXCEPT !.uploadedFiles = Append(@, path), !.uploads = @ + 1,
                                    !.pc = "insertBanner"]
                    ELSE IF o = "error" THEN AfterError(q1, 400, "upload", FALSE)
                    ELSE AfterThrow(q1)]
    /\ UNCHANGED <<products, productImages, productDetails, banners, ids>>

BannerCreateInsert(r) ==
    LET q == req[r]
        row == [banner_id |-> ids.banner + 1,
                image_url_mobile |-> getPublicUrl("banners", q.uploadedFiles[1]),
                image_url_desktop |-> getPublicUrl("banners", q.uploadedFiles[2]),
                display_order |-> q.i, is_active |-> q.in.is_active,
                created_by |-> q.user]
    IN
    /\ q.op = "bannerCreate" /\ q.pc = "insertBanner"
    /\ \E o \in Outcomes :
         /\ Fault(o)
         /\ IF o = "ok"
            THEN /\ banners' = banners \cup {row}
                 /\ ids' = [ids EXCEPT !.banner = @ + 1]
                 /\ req' = [req EXCEPT ![r] = Done([q EXCEPT !.rowOps = @ + 1], 201, "ok")]
            ELSE /\ req' = [req EXCEPT ![r] =
                        LET q1 == [q EXCEPT !.rowOps = @ + 1]
                        IN  IF o = "throw" THEN AfterThrow(q1)
                            ELSE AfterError(q1, 400, "insertBanner", FALSE)]
                 /\ UNCHANGED <<banners, ids>>
    /\ UNCHANGED <<products, productImages, productDetails, objects>>

\* A variant of the compensation that answers without removing the uploads
BannerCleanupSkipped(r) ==
    LET q == req[r] IN
    /\ q.op \in {"bannerCreate", "bannerUpdate"} /\ q.pc \in {"cleanup", "catchCleanup"}
    /\ req' = [req EXCEPT ![r] = Done(q, q.retStatus, q.retReason)]
    /\ UNCHANGED <<stores, ids, faults>>

\* remove(uploadedFiles) of the banners bucket, in the try block (a throw goes to
\* the catch block) and in the catch block (its failure is swallowed)
BannerCleanup(r) ==
    LET q == req[r] IN
    /\ q.op \in {"bannerCreate", "bannerUpdate"} /\ q.pc \in {"cleanup", "catchCleanup"}
    /\ \E o \in Outcomes :
         /\ Fault(o)
         /\ objects' = IF o = "ok"
                       THEN StorageRemove(objects, "banners", SeqToSet(q.uploadedFiles), FALSE)
                       ELSE objects
         /\ req' = [req EXCEPT ![r] =
                LET q1 == [q EXCEPT !.objOps = @ + 1]
                IN  IF q.pc = "cleanup" /\ o = "throw"
                    THEN [q1 EXCEPT !.pc = "catchCleanup", !.retStatus = 500,
                                    !.retReason = "thrown"]
                    ELSE Done(q1, q.retStatus, q.retReason)]
    /\ UNCHANGED <<products, productImages, productDetails, banners, ids>>

BannerCreate(r) ==
    \/ BannerCreateUploadMobile(r)
    \/ BannerCreateUploadDesktop(r)
    \/ BannerCreateInsert(r)

bannerUpdateSchema(in) == in.banner_id > 0

BannerUpdateBegin(r, lim, Users, Forms) ==
    /\ CanStart(r, lim)
    /\ \E u \in Users :
         LET q == [Idle EXCEPT !.op = "bannerUpdate", !.user = u, !.before = Snapshot]
             a == requireAdminEmail(u)
         IN  IF a # 0 THEN req' = [req EXCEPT ![r] = Done(q, a, "auth")]
             ELSE \E in \in Forms :
                    req' = [req EXCEPT ![r] =
                        IF ~ bannerUpdateSchema(in)
                        THEN Done([q EXCEPT !.in = in], 400, "validation")
                        ELSE [q EXCEPT !.in = in, !.product_id = in.banner_id,
                                       !.pc = "getBanner"]]
    /\ UNCHANGED <<stores, ids, faults>>

SlotHasFile(in, slot) == IF slot = "mobile" THEN in.mobile ELSE in.desktop
SlotFileOk(in, slot) == IF slot = "mobile" THEN in.mobileOk ELSE in.desktopOk
SlotUrl(b, slot) == IF slot = "mobile" THEN b.image_url_mobile ELSE b.image_url_desktop

\* entering the block of a slot: the file checks, then the removal of the old
\* object when its URL gives a path; without a file the block is skipped
EnterSlot(q, slot) ==
    IF ~ SlotHasFile(q.in, slot)
    THEN IF slot = "mobile" THEN [q EXCEPT !.pc = "desktop"] ELSE [q EXCEPT !.pc = "updateBanner"]
    ELSE IF ~ SlotFileOk(q.in, slot) THEN Done(q, 400, "file")
    ELSE IF extractFilePathFromUrl("banners", SlotUrl(q.existing, slot)) # NULL
    THEN [q EXCEPT !.pc = "removeOld", !.slot = slot]
    ELSE [q EXCEPT !.pc = "upload", !.slot = slot]

\* getBanner: .single() fails when no row has the id
BannerUpdateGet(r) ==
    LET q == req[r] IN
    /\ q.op = "bannerUpdate" /\ q.pc = "getBanner"
    /\ req' = [req EXCEPT ![r] =
           IF ~ BannerExists(q.product_id) THEN Done(q, 404, "notFound")
           ELSE LET b == BannerRow(q.product_id)
                IN  EnterSlot([q EXCEPT !.existing = b,
                                        !.imageUrls = <<b.image_url_mobile,
                                                        b.image_url_desktop>>], "mobile")]
    /\ UNCHANGED <<stores, ids, faults>>

\* the desktop block is entered after the mobile block
BannerUpdateDesktop(r) ==
    LET q == req[r] IN
    /\ q.op = "bannerUpdate" /\ q.pc = "desktop"
    /\ req' = [req EXCEPT ![r] = EnterSlot(q, "desktop")]
    /\ UNCHANGED <<stores, ids, faults>>

\* remove([old path]) of the slot; an error is logged
BannerUpdateRemoveOld(r) ==
    LET q == req[r]
        slot == q.slot
    IN
    /\ q.op = "bannerUpdate" /\ q.pc = "removeOld"
    /\ \E o \in Outcomes :
         /\ Fault(o)
         /\ objects' = IF o = "ok"
                       THEN StorageRemove(objects, "banners",
                              {extractFilePathFromUrl("banners", SlotUrl(q.existing, slot))},
                              FALSE)
                       ELSE objects
         /\ req' = [req EXCEPT ![r] =
                LET q1 == [q EXCEPT !.objOps = @ + 1]
                IN  IF o = "throw" THEN AfterThrow(q1) ELSE [q1 EXCEPT !.pc = "upload"]]
    /\ UNCHANGED <<products, productImages, productDetails, banners, ids>>

\* upload of the slot's new file; an upload error returns at once
BannerUpdateUpload(r) ==
    LET q == req[r]
        slot == q.slot
        path == BannerPath(ids.clock + 1, slot)
        url == getPublicUrl("banners", path)
    IN
    /\ q.op = "bannerUpdate" /\ q.pc = "upload"
    /\ \E o \in Outcomes :
         /\ Fault(o)
         /\ ids' = [ids EXCEPT !.clock = @ + 1]
         /\ objects' = IF o = "ok" THEN objects \cup {Obj("banners", path)} ELSE objects
         /\ req' = [req EXCEPT ![r] =
                LET q1 == [q EXCEPT !.objOps = @ + 1]
                IN  IF o = "ok"
                    THEN [q1 EXCEPT !.uploadedFiles = Append(@, path), !.uploads = @ + 1,
                             !.imageUrls = IF slot = "mobile" THEN <<url, @[2]>>
                                           ELSE <<@[1], url>>,
                             !.pc = IF slot = "mobile" THEN "desktop" ELSE "updateBanner"]
                    ELSE IF o = "error" THEN Done(q1, 400, "upload")
                    ELSE AfterThrow(q1)]
    /\ UNCHANGED <<products, productImages, productDetails, banners>>

\* A variant of the row update whose updateData carries created_by: user.id
BannerUpdateRowTakesOwnership(r) ==
    LET q == req[r] IN
    /\ q.op = "bannerUpdate" /\ q.pc = "updateBanner"
    /\ \E o \in Outcomes :
         /\ Fault(o)
         /\ IF o = "ok" /\ BannerExists(q.product_id)
            THEN /\ banners' = {IF b.banner_id = q.product_id
                                THEN [b EXCEPT !.image_url_mobile = q.imageUrls[1],
                                               !.image_url_desktop = q.imageUrls[2],
                                               !.display_order = coerceDisplayOrder(q.in),
                                               !.is_active = q.in.is_active,
                                               !.created_by = q.user]
                                ELSE b : b \in banners}
                 /\ req' = [req EXCEPT ![r] = Done([q EXCEPT !.rowOps = @ + 1], 302, "ok")]
            ELSE /\ req' = [req EXCEPT ![r] =
                        LET q1 == [q EXCEPT !.rowOps = @ + 1]
                        IN  IF o = "throw" THEN AfterThrow(q1)
                            ELSE AfterError(q1, 400, "updateBanner", FALSE)]
                 /\ UNCHANGED banners
    /\ UNCHANGED <<products, productImages, productDetails, objects, ids>>

\* update(updateData).eq("banner_id", banner_id).select().single()
BannerUpdateRow(r) ==
    LET q == req[r] IN
    /\ q.op = "bannerUpdate" /\ q.pc = "updateBanner"
    /\ \E o \in Outcomes :
         /\ Fault(o)
         /\ IF o = "ok" /\ BannerExists(q.product_id)
            THEN /\ banners' = {IF b.banner_id = q.product_id
                                THEN [b EXCEPT !.image_url_mobile = q.imageUrls[1],
                                               !.image_url_desktop = q.imageUrls[2],
                                               !.display_order = coerceDisplayOrder(q.in),
                                               !.is_active = q.in.is_active]
                                ELSE b : b \in banners}
                 /\ req' = [req EXCEPT ![r] = Done([q EXCEPT !.rowOps = @ + 1], 302, "ok")]
            ELSE /\ req' = [req EXCEPT ![r] =
                        LET q1 == [q EXCEPT !.rowOps = @ + 1]
                        IN  IF o = "throw" THEN AfterThrow(q1)
                            ELSE AfterError(q1, 400, "updateBanner", FALSE)]
                 /\ UNCHANGED banners
    /\ UNCHANGED <<products, productImages, productDetails, objects, ids>>

BannerUpdate(r) ==
    \/ BannerUpdateGet(r)
    \/ BannerUpdateDesktop(r)
    \/ BannerUpdateRemoveOld(r)
    \/ BannerUpdateUpload(r)
    \/ BannerUpdateRow(r)

deleteBannerSchema(in) == in.banner_id > 0

BannerDeleteBegin(r, lim, Users, Forms) ==
    /\ CanStart(r, lim)
    /\ \E u \in Users :
         LET q == [Idle EXCEPT !.op = "bannerDelete", !.user = u, !.before = Snapshot]
             a == requireAdminEmail(u)
         IN  IF a # 0 THEN req' = [req EXCEPT ![r] = Done(q, a, "auth")]
             ELSE \E in \in Forms :
                    req' = [req EXCEPT ![r] =
                        IF ~ deleteBannerSchema(in)
                        THEN Done([q EXCEPT !.in = in], 400, "validation")
                        ELSE [q EXCEPT !.in = in, !.product_id = in.banner_id,
                                       !.pc = "getBanner"]]
    /\ UNCHANGED <<stores, ids, faults>>

\* A variant of delete banner that removes the mobile object only
DeleteSlotPcMobileOnly(b, slot) ==
    IF slot = "mobile" /\ extractFilePathFromUrl("banners", b.image_url_mobile) # NULL
    THEN "removeMobile"
    ELSE "deleteBanner"

\* the step of delete banner before the slot's removal, or the row delete
DeleteSlotPc(b, slot) ==
    IF slot = "mobile"
    THEN IF extractFilePathFromUrl("banners", b.image_url_mobile) # NULL THEN "removeMobile"
         ELSE IF extractFilePathFromUrl("banners", b.image_url_desktop) # NULL
         THEN "removeDesktop" ELSE "deleteBanner"
    ELSE IF extractFilePathFromUrl("banners", b.image_url_desktop) # NULL
         THEN "removeDesktop" ELSE "deleteBanner"

BannerDeleteGet(r) ==
    LET q == req[r] IN
    /\ q.op = "bannerDelete" /\ q.pc = "getBanner"
    /\ req' = [req EXCEPT ![r] =
           IF ~ BannerExists(q.product_id) THEN Done(q, 404, "notFound")
           ELSE LET b == BannerRow(q.product_id)
                IN  [q EXCEPT !.existing = b, !.pc = DeleteSlotPc(b, "mobile")]]
    /\ UNCHANGED <<stores, ids, faults>>

\* remove([path]) of the mobile, then of the desktop object; an error is logged
BannerDeleteRemove(r) ==
    LET q == req[r]
        url == IF q.pc = "removeMobile" THEN q.existing.image_url_mobile
               ELSE q.existing.image_url_desktop
    IN
    /\ q.op = "bannerDelete" /\ q.pc \in {"removeMobile", "removeDesktop"}
    /\ \E o \in Outcomes :
         /\ Fault(o)
         /\ objects' = IF o = "ok"
                       THEN StorageRemove(objects, "banners",
                                          {extractFilePathFromUrl("banners", url)}, FALSE)
                       ELSE objects
         /\ req' = [req EXCEPT ![r] =
                LET q1 == [q EXCEPT !.objOps = @ + 1]
                IN  IF o = "throw" THEN Done(q1, 500, "thrown")
                    ELSE IF q.pc = "removeMobile"
                    THEN [q1 EXCEPT !.pc = DeleteSlotPc(q.existing, "desktop")]
                    ELSE [q1 EXCEPT !.pc = "deleteBanner"]]
    /\ UNCHANGED <<products, productImages, productDetails, banners, ids>>

BannerDeleteRow(r) ==
    LET q == req[r] IN
    /\ q.op = "bannerDelete" /\ q.pc = "deleteBanner"
    /\ \E o \in Outcomes :
         /\ Fault(o)
         /\ banners' = IF o = "ok" THEN {b \in banners : b.banner_id # q.product_id}
                       ELSE banners
         /\ req' = [req EXCEPT ![r] =
                LET q1 == [q EXCEPT !.rowOps = @ + 1]
                IN  IF o = "ok" THEN Done(q1, 302, "ok")
                    ELSE IF o = "error" THEN Done(q1, 400, "deleteBanner")
                    ELSE Done(q1, 500, "thrown")]
    /\ UNCHANGED <<products, productImages, productDetails, objects, ids>>

BannerDelete(r) ==
    \/ BannerDeleteGet(r)
    \/ BannerDeleteRemove(r)
    \/ BannerDeleteRow(r)

\* .order("display_order", { ascending: true }): the rows in an order the store
\* may return them, rows of equal display_order in any order
OrderedByDisplayOrder(rows) ==
    {s \in [1..Cardinality(rows) -> rows] :
        /\ \A i, j \in 1..Cardinality(rows) : i # j => s[i] # s[j]
        /\ \A i, j \in 1..Cardinality(rows) :
               i < j => s[i].display_order <= s[j].display_order}

\* A variant of the public read without the filter on is_active
getActiveBannersUnfiltered == OrderedByDisplayOrder(banners)

\* from("banners").select("*").eq("is_active", true).order("display_order")
getActiveBanners == OrderedByDisplayOrder({b \in banners : b.is_active})

\* from("banners").select("*").order("display_order")
getBanners == OrderedByDisplayOrder(banners)

\* the loader of the home page: the public client reads the active banners
HomeLoader(r, lim) ==
    /\ CanStart(r, lim)
    /\ \E res \in getActiveBanners :
         req' = [req EXCEPT ![r] =
                    Done([Idle EXCEPT !.op = "home", !.before = Snapshot, !.result = res],
                         200, "ok")]
    /\ UNCHANGED <<stores, ids, faults>>

\* the loader of the banner management page: the operator reads every banner
BannerManageLoader(r, lim, Users) ==
    /\ CanStart(r, lim)
    /\ \E u \in Users :
         LET q == [Idle EXCEPT !.op = "manage", !.user = u, !.before = Snapshot]
             a == requireAdminEmail(u)
         IN  IF a # 0 THEN req' = [req EXCEPT ![r] = Done(q, a, "auth")]
             ELSE \E res \in getBanners :
                    req' = [req EXCEPT ![r] = Done([q EXCEPT !.result = res], 200, "ok")]
    /\ UNCHANGED <<stores, ids, faults>>

\* what a loader returns: the product row, its images and its details in order
ProductWithChildren(pid) ==
    <<ProductRow(pid),
      SortImages({x \in productImages : x.product_id = pid}),
      SortDetails({x \in productDetails : x.product_id = pid})>>

\* the loader of the update endpoint: requireAdminEmail, the product_id of the
\* query string, then the product, its images and its details
UpdateLoader(r, lim, Users, Queries) ==
    /\ CanStart(r, lim)
    /\ \E u \in Users :
         LET q == [Idle EXCEPT !.op = "updateLoader", !.user = u, !.before = Snapshot]
             a == requireAdminEmail(u)
         IN  IF a # 0 THEN req' = [req EXCEPT ![r] = Done(q, a, "auth")]
             ELSE \E in \in Queries :
                    LET q1 == [q EXCEPT !.in = in, !.product_id = in.product_id]
                    IN  req' = [req EXCEPT ![r] =
                          IF ~ in.isNumber THEN Done(q1, 400, "validation")
                          ELSE IF ~ ProductExists(in.product_id)
                          THEN Done(q1, 404, "notFound")
                          ELSE Done([q1 EXCEPT
                                       !.existing = ProductRow(in.product_id),
                                       !.result = ProductWithChildren(in.product_id)],
                                    200, "ok")]
    /\ UNCHANGED <<stores, ids, faults>>

\* the loader of the edit page: requireAdminEmail, the product, the ownership
\* check, then its images and its details
editLoader(r, lim, Users, Queries) ==
    /\ CanStart(r, lim)
    /\ \E u \in Users :
         LET q == [Idle EXCEPT !.op = "editLoader", !.user = u, !.before = Snapshot]
             a == requireAdminEmail(u)
         IN  IF a # 0 THEN req' = [req EXCEPT ![r] = Done(q, a, "auth")]
             ELSE \E in \in {x \in Queries : x.isNumber} :
                    LET q1 == [q EXCEPT !.in = in, !.product_id = in.product_id]
                    IN  req' = [req EXCEPT ![r] =
                          IF ~ ProductExists(in.product_id)
                          THEN Done(q1, 404, "notFound")
                          ELSE IF ~ VerifyOwnership(ProductRow(in.product_id), u)
                          THEN Done([q1 EXCEPT !.existing = ProductRow(in.product_id)],
                                    403, "forbidden")
                          ELSE Done([q1 EXCEPT
                                       !.existing = ProductRow(in.product_id),
                                       !.result = ProductWithChildren(in.product_id)],
                                    200, "ok")]
    /\ UNCHANGED <<stores, ids, faults>>

\* --------------------------------------------------------------- catalogs
\* the store before any request
EmptyCatalog ==
    [products |-> {}, productImages |-> {}, productDetails |-> {}, banners |-> {},
     objects |-> {},
     ids |-> [product |-> 0, image |-> 0, detail |-> 0, banner |-> 0, clock |-> 0]]

\* the store after u1 created product 1 (two images, a detail with an image and
\* one without), u2 created product 2 (supplied slug, one image), and each
\* created a banner: the rows and objects those four requests leave
SeedCatalog ==
    [products |->
        { [product_id |-> 1, title |-> <<"A">>, price |-> 1, slug |-> generateSlug(<<"A">>),
           sold_out |-> FALSE, created_by |-> "u1"],
          [product_id |-> 2, title |-> <<"a">>, price |-> 1, slug |-> <<"b">>,
           sold_out |-> FALSE, created_by |-> "u2"] },
     productImages |->
        { [image_id |-> 1, product_id |-> 1, image_order |-> 0,
           image_url |-> getPublicUrl("products", ImagePath(1, 1))],
          [image_id |-> 2, product_id |-> 1, image_order |-> 1,
           image_url |-> getPublicUrl("products", ImagePath(1, 2))],
          [image_id |-> 3, product_id |-> 2, image_order |-> 0,
           image_url |-> getPublicUrl("products", ImagePath(2, 4))] },
     productDetails |->
        { [detail_id |-> 1, product_id |-> 1, detail_text |-> "t", detail_order |-> 0,
           detail_image_url |-> getPublicUrl("products", DetailPath(1, 0, 3))],
          [detail_id |-> 2, product_id |-> 1, detail_text |-> "t", detail_order |-> 1,
           detail_image_url |-> NULL] },
     banners |->
        { [banner_id |-> 1, display_order |-> 1, is_active |-> TRUE, created_by |-> "u1",
           image_url_mobile |-> getPublicUrl("banners", BannerPath(5, "mobile")),
           image_url_desktop |-> getPublicUrl("banners", BannerPath(5, "desktop"))],
          [banner_id |-> 2, display_order |-> 2, is_active |-> FALSE, created_by |-> "u2",
           image_url_mobile |-> getPublicUrl("banners", BannerPath(6, "mobile")),
           image_url_desktop |-> getPublicUrl("banners", BannerPath(6, "desktop"))] },
     objects |->
        { Obj("products", ImagePath(1, 1)), Obj("products", ImagePath(1, 2)),
          Obj("products", DetailPath(1, 0, 3)), Obj("products", ImagePath(2, 4)),
          Obj("banners", BannerPath(5, "mobile")), Obj("banners", BannerPath(5, "desktop")),
          Obj("banners", BannerPath(6, "mobile")), Obj("banners", BannerPath(6, "desktop")) },
     ids |-> [product |-> 2, image |-> 3, detail |-> 2, banner |-> 2, clock |-> 6]]

Catalogs == {EmptyCatalog, SeedCatalog}

StartFrom(c) ==
    /\ products = c.products
    /\ productImages = c.productImages
    /\ productDetails = c.productDetails
    /\ banners = c.banners
    /\ objects = c.objects
    /\ ids = c.ids
    /\ req = [r \in Slots |-> Idle]
    /\ faults = 0

Init == \E c \in Catalogs : StartFrom(c)

\* ------------------------------------------------------------ request forms
MaxProductId == 3    \* product and banner ids a form may name
MaxImageId == 3      \* image ids a form may name
MaxDetailId == 2     \* detail ids a form may name

ProductForms == [product_id : 0..MaxProductId]

\* the product_id of a loader's request: isNumber is FALSE when the parameter
\* is absent or parseInt gives NaN
LoaderQueries ==
    {[isNumber |-> FALSE, product_id |-> 0]}
        \cup {[isNumber |-> TRUE, product_id |-> p] : p \in 0..MaxProductId}

\* the edit form as the page submits it for product 1 of the seed, nothing changed
BaseUpdate ==
    [product_id |-> 1, title |-> <<"A">>, slug |-> <<>>, price |-> 1, images |-> 0,
     existing_image_ids |-> <<1, 2>>, details |-> <<>>, existing_detail_ids |-> <<1, 2>>,
     filesOk |-> TRUE]

\* forms that vary the image lists
ImageForms ==
    { [BaseUpdate EXCEPT !.existing_image_ids = keep, !.images = n] :
        keep \in SeqsUpTo(1..MaxImageId, MaxKeep), n \in 0..MaxFiles }

\* forms that vary the details lists
DetailForms ==
    { [BaseUpdate EXCEPT !.existing_detail_ids = keep, !.details = d] :
        keep \in SeqsUpTo(1..MaxDetailId, MaxKeep),
        d \in SeqsUpTo(DetailEntries(0..MaxDetailId), MaxDetails) }

\* forms that vary the target, the scalars and the validity of the files
ScalarForms ==
    { [BaseUpdate EXCEPT !.product_id = pid, !.title = sc.title, !.slug = sc.slug,
                         !.price = sc.price, !.filesOk = ok, !.images = n] :
        pid \in 0..MaxProductId, sc \in ScalarInputs \cup BadScalarInputs,
        ok \in BOOLEAN, n \in 0..1 }

\* forms that change images and details in one request
MixedForms ==
    { [BaseUpdate EXCEPT !.existing_image_ids = keep, !.images = 1,
                         !.existing_detail_ids = dkeep, !.details = d] :
        keep \in {<<>>, <<2, 1>>}, dkeep \in {<<>>, <<1>>},
        d \in SeqsUpTo(DetailEntries({0, 1}), 1) \ {<<>>} }

\* forms for product 2 of the seed that name image and detail ids of product 1
CrossForms ==
    { [BaseUpdate EXCEPT !.product_id = 2, !.title = <<"a">>, !.slug = <<"b">>,
                         !.existing_image_ids = keep, !.existing_detail_ids = dkeep,
                         !.details = d] :
        keep \in {<<3, 1>>, <<1, 2>>, <<2>>}, dkeep \in {<<>>, <<1, 2>>},
        d \in SeqsUpTo(DetailEntries({1}), 1) }

UpdateForms == ImageForms \cup DetailForms \cup ScalarForms \cup MixedForms \cup CrossForms

\* order_given: the form has a display_order field, whose number is display_order
BannerCreateForms ==
    {in \in [mobile : BOOLEAN, desktop : BOOLEAN, mobileOk : BOOLEAN, desktopOk : BOOLEAN,
              order_given : BOOLEAN, display_order : 0..1, is_active : BOOLEAN] :
        ~ in.order_given => in.display_order = 0}
BannerUpdateForms ==
    {in \in [banner_id : 0..MaxProductId, mobile : BOOLEAN, desktop : BOOLEAN,
              mobileOk : BOOLEAN, desktopOk : BOOLEAN, order_given : BOOLEAN,
              display_order : 0..1, is_active : BOOLEAN] :
        ~ in.order_given => in.display_order = 0}
BannerForms == [banner_id : 0..MaxProductId]

\* ------------------------------------------------------------ specifications
ProductSteps(r) ==
    \/ CreateProduct(r)
    \/ UpdateProduct(r)
    \/ DeleteProduct(r)
    \/ ToggleSoldOut(r)

BannerSteps(r) ==
    \/ BannerCreate(r)
    \/ BannerUpdate(r)
    \/ BannerDelete(r)
    \/ BannerCleanup(r)

\* one request, any endpoint, any form
Next ==
    \E r \in Slots :
        \/ CreateBegin(r, 1, Callers, CreateInputs \cup HangulInputs)
        \/ UpdateBegin(r, 1, Callers, UpdateForms)
        \/ DeleteBegin(r, 1, Callers, ProductForms)
        \/ ToggleBegin(r, 1, Callers, ProductForms)
        \/ BannerCreateBegin(r, 1, Callers, BannerCreateForms)
        \/ BannerUpdateBegin(r, 1, Callers, BannerUpdateForms)
        \/ BannerDeleteBegin(r, 1, Callers, BannerForms)
        \/ UpdateLoader(r, 1, Callers, LoaderQueries)
        \/ editLoader(r, 1, Callers, LoaderQueries)
        \/ ProductSteps(r)
        \/ BannerSteps(r)

Spec == Init /\ [][Next]_vars

\* the server runs a handler it has started until the handler returns: every
\* store call it awaits answers or throws
SpecFair == Spec /\ \A r \in Slots : WF_vars(ProductSteps(r) \/ BannerSteps(r))

\* the forms of the requests that run side by side
ConcCreateForms ==
    {in \in CreateInputs :
        /\ in.images = 1 /\ in.filesOk /\ productSchema(in)
        /\ in.details \in {<<>>, <<[image |-> TRUE, detail_id |-> 0, text |-> "t"]>>}}
ConcUpdateForms ==
    { [BaseUpdate EXCEPT !.title = sc.title, !.slug = sc.slug, !.price = sc.price] :
        sc \in ScalarInputs }
    \cup
    { [BaseUpdate EXCEPT !.existing_image_ids = <<2>>, !.images = 1,
                         !.details = <<[image |-> TRUE, detail_id |-> 1, text |-> "t"],
                                       [image |-> FALSE, detail_id |-> 2, text |-> "t"]>>] }
ConcProductForms == {in \in ProductForms : in.product_id \in 1..2}
Admins == {u \in Principals : requireAdminEmail(u) = 0}

\* MaxSlots product requests of the operators, their store calls interleaved
NextConc ==
    \E r \in Slots :
        \/ CreateBegin(r, MaxSlots, Admins, ConcCreateForms)
        \/ UpdateBegin(r, MaxSlots, Admins, ConcUpdateForms)
        \/ DeleteBegin(r, MaxSlots, Admins, ConcProductForms)
        \/ ToggleBegin(r, MaxSlots, Admins, ConcProductForms)
        \/ ProductSteps(r)

SpecConc == Init /\ [][NextConc]_vars

\* the update forms of the interleaved requests and one that keeps every image
\* and every detail of product 1, each detail entry carrying its detail_id
SeqUpdateForms ==
    ConcUpdateForms
    \cup
    { [BaseUpdate EXCEPT !.details = <<[image |-> FALSE, detail_id |-> 1, text |-> "t"],
                                       [image |-> FALSE, detail_id |-> 2, text |-> "t"]>>] }

\* an update request that arrives when the one before it has been answered
UpdateInTurn(r) ==
    /\ IF r = 1 THEN TRUE ELSE req[r - 1].pc = "done"
    /\ UpdateBegin(r, MaxSlots, Admins, SeqUpdateForms)

\* MaxSlots update requests of the operators, one after the other
NextSeq ==
    \E r \in Slots :
        \/ UpdateInTurn(r)
        \/ UpdateProduct(r)

SpecSeq == Init /\ [][NextSeq]_vars

\* the banner forms of the requests sent in turn: both files, valid, at create;
\* any choice of new files at update
SeqBannerCreateForms ==
    {in \in BannerCreateForms : in.mobile /\ in.desktop /\ in.mobileOk /\ in.desktopOk}
SeqBannerUpdateForms ==
    {in \in BannerUpdateForms : in.banner_id \in 1..2 /\ in.mobileOk /\ in.desktopOk}
SeqBannerForms == {in \in BannerForms : in.banner_id \in 1..2}

\* request r arrives when the one before it has been answered
InTurn(r) == IF r = 1 THEN TRUE ELSE req[r - 1].pc = "done"

\* MaxSlots banner requests and page loads, one after the other
NextBanners ==
    \E r \in Slots :
        \/ InTurn(r) /\ BannerCreateBegin(r, MaxSlots, Admins, SeqBannerCreateForms)
        \/ InTurn(r) /\ BannerUpdateBegin(r, MaxSlots, Admins, SeqBannerUpdateForms)
        \/ InTurn(r) /\ BannerDeleteBegin(r, MaxSlots, Admins, SeqBannerForms)
        \/ InTurn(r) /\ HomeLoader(r, MaxSlots)
        \/ InTurn(r) /\ BannerManageLoader(r, MaxSlots, Callers)
        \/ BannerSteps(r)

SpecBanners == Init /\ [][NextBanners]_vars

\* toggle sold-out and update product requests of the operators, one after the
\* other
NextToggle ==
    \E r \in Slots :
        \/ InTurn(r) /\ ToggleBegin(r, MaxSlots, Admins, ConcProductForms)
        \/ InTurn(r) /\ UpdateBegin(r, MaxSlots, Admins, ConcUpdateForms)
        \/ ToggleSoldOut(r)
        \/ UpdateProduct(r)

SpecToggle == Init /\ [][NextToggle]_vars

\* ------------------------------------------------------------------ claims
ImagesOf(rows, pid) == {x \in rows : x.product_id = pid}
ImageOrders(pid) == {x.image_order : x \in ImagesOf(productImages, pid)}
DetailOrders(pid) == {x.detail_order : x \in ImagesOf(productDetails, pid)}
Succeeded(q) == q.pc = "done" /\ q.reason = "ok"
\* the objects stored for a product: the paths create and update upload to
ProductObjects(objs, pid) ==
    {o \in objs : o.bucket = "products" /\ IsPrefix(<<"products", Str(pid)>>, o.path)}
\* the image rows a request added: their ids are not in the store it found
NewImageRows(q) ==
    {x \in productImages : \A y \in q.before.productImages : y.image_id # x.image_id}

\* C1: after a successful create product or update product the image rows of the
\* product carry the orders 0..n-1, each once, and its detail rows 0..m-1
C1_OrdersContiguous ==
    \A r \in Slots :
        LET q == req[r] IN
        (q.op \in {"create", "update"} /\ Succeeded(q)) =>
            /\ ImageOrders(q.product_id)
                   = 0..(Cardinality(ImagesOf(productImages, q.product_id)) - 1)
            /\ DetailOrders(q.product_id)
                   = 0..(Cardinality(ImagesOf(productDetails, q.product_id)) - 1)

\* C2: when the upload of a new image file fails in create product or update
\* product, the request returns with none of the objects it uploaded earlier in
\* the asset store and with no image row of its own in the relational store
C2_UploadFailureLeavesNothing ==
    \A r \in Slots :
        LET q == req[r] IN
        (q.op \in {"create", "update"} /\ q.pc = "done" /\ q.reason = "upload") =>
            /\ \A k \in 1..Len(q.uploadedFiles) :
                   Obj("products", q.uploadedFiles[k]) \notin objects
            /\ NewImageRows(q) = {}

\* C3: when a step of create product fails after the product row was inserted,
\* the request returns an error and the product row is gone
C3_CreateRollsBackProduct ==
    \A r \in Slots :
        LET q == req[r] IN
        (q.op = "create" /\ q.pc = "done" /\ q.product_id # 0 /\ q.reason # "ok") =>
            /\ q.status >= 400
            /\ ~ ProductExists(q.product_id)

\* C4: an update product request with no kept image id and no new image file is
\* refused, and at no point has it removed an image object or deleted or changed
\* an image row of the product
C4_EmptyImageSetRefused ==
    \A r \in Slots :
        LET q == req[r] IN
        (q.op = "update" /\ q.in # NoInput /\ productUpdateSchema(q.in)
            /\ q.in.existing_image_ids = <<>> /\ q.in.images = 0) =>
            /\ ~ Succeeded(q)
            /\ ImagesOf(q.before.productImages, q.in.product_id) \subseteq productImages
            /\ ProductObjects(q.before.objects, q.in.product_id) \subseteq objects

\* the request named a product that another principal created / no product
OwnedByOther(q) ==
    \E p \in q.before.products : p.product_id = q.in.product_id /\ p.created_by # q.user
Missing(q) == \A p \in q.before.products : p.product_id # q.in.product_id
NothingIssued(q) == q.rowOps = 0 /\ q.objOps = 0 /\ q.uploads = 0
OwnershipGuarded(q) ==
    /\ OwnedByOther(q) => q.status = 403 /\ NothingIssued(q) /\ Snapshot = q.before
    /\ Missing(q) => q.status = 404 /\ NothingIssued(q) /\ Snapshot = q.before

\* C5 as stated: update product, delete product and toggle sold-out by an
\* operator on a product of another principal end in 403, and on a product id
\* that does not exist in 404, with both stores as they were
C5_OwnershipAnyForm ==
    \A r \in Slots :
        LET q == req[r] IN
        (q.op \in {"update", "delete", "toggle"} /\ q.pc = "done" /\ q.in # NoInput) =>
            OwnershipGuarded(q)

FormAccepted(q) ==
    CASE q.op = "update" -> productUpdateSchema(q.in)
      [] q.op = "delete" -> deleteProductSchema(q.in)
      [] q.op = "toggle" -> toggleSoldOutSchema(q.in)

\* C5: a request of update product, delete product or toggle sold-out whose form
\* passes the handler's schema ends in 403 on a product of another principal and
\* in 404 on a product id that does not exist, no store call issued and both
\* stores as they were
C5_OwnershipGuard ==
    \A r \in Slots :
        LET q == req[r] IN
        (q.op \in {"update", "delete", "toggle"} /\ q.pc = "done" /\ q.in # NoInput
            /\ FormAccepted(q)) =>
            OwnershipGuarded(q)

C5_Witness ==
    \E r \in Slots :
        LET q == req[r] IN
        /\ q.op = "update" /\ q.pc = "done" /\ q.status = 403 /\ q.in # NoInput
        /\ OwnedByOther(q) /\ ImagesOf(productImages, q.in.product_id) # {}

C7_SlugUnique ==
    \A p1 \in products : \A p2 \in products : p1.slug = p2.slug => p1 = p2

\* two requests took the same slug past the handler's own check and the store
\* refused the later write
C7_Witness ==
    \E r1 \in Slots : \E r2 \in Slots :
        /\ req[r1].op = "create" /\ Succeeded(req[r1])
        /\ req[r2].op = "update" /\ req[r2].pc = "done" /\ req[r2].rowOps > 0
        /\ req[r2].slug = req[r1].slug /\ req[r2].reason = "thrown" /\ faults = 0

\* two finished create product requests, the only requests there are, that
\* resolved to one slug, free when the earlier of them arrived, no store call
\* failing for another reason
SameSlugCreates(r1, r2) ==
    /\ r1 # r2
    /\ \A r3 \in Slots \ {r1, r2} : req[r3].op = "none"
    /\ req[r1].op = "create" /\ req[r2].op = "create"
    /\ req[r1].pc = "done" /\ req[r2].pc = "done"
    /\ req[r1].in # NoInput /\ req[r2].in # NoInput
    /\ req[r1].slug = req[r2].slug
    /\ \A p \in req[r1].before.products : p.slug # req[r1].slug
    /\ faults = 0

C9_DeleteRemovesAssets ==
    \A r \in Slots :
        LET q == req[r] IN
        (q.op = "delete" /\ Succeeded(q) /\ faults = 0) =>
            /\ ~ ProductExists(q.product_id)
            /\ ImagesOf(productImages, q.product_id) = {}
            /\ ImagesOf(productDetails, q.product_id) = {}
            /\ ProductObjects(objects, q.product_id) = {}

SoldOutIn(rows, pid) == (CHOOSE p \in rows : p.product_id = pid).sold_out

\* C10: two toggle sold-out requests on one product that both found the same
\* value when they arrived and both succeeded leave that value in place
C10_TwoTogglesRestore ==
    \A r1 \in Slots : \A r2 \in Slots :
        LET q1 == req[r1]
            q2 == req[r2]
        IN  (r1 # r2 /\ q1.op = "toggle" /\ q2.op = "toggle"
                /\ Succeeded(q1) /\ Succeeded(q2) /\ q1.product_id = q2.product_id
                /\ SoldOutIn(q1.before.products, q1.product_id)
                       = SoldOutIn(q2.before.products, q2.product_id)) =>
            SoldOutIn(products, q1.product_id) = SoldOutIn(q1.before.products, q1.product_id)

\* C11: an update-product request that has not succeeded (still running, or ended
\* with a failure of image or detail reconciliation or of any other step) leaves
\* every product row as it was when the request arrived; the scalar fields are
\* written by the last store call of a request whose reconciliations succeeded.
C11_ScalarsWrittenLast ==
    \A r \in Slots :
        (req[r].op = "update" /\ ~Succeeded(req[r])) => products = req[r].before.products

\* A reconciliation failure of an update whose form carries other scalars than the row
C11_Witness ==
    \E r \in Slots :
        LET q == req[r] IN
        /\ q.op = "update" /\ q.pc = "done"
        /\ q.reason \in {"deleteImages", "reorder", "upload", "insertImages",
                         "deleteDetails", "uploadDetail", "insertDetails"}
        /\ q.existing # NoRow
        /\ <<q.in.title, q.in.price>> # <<q.existing.title, q.existing.price>>
        /\ products = q.before.products

\* The image rows of a product without their order, and its image objects (the
\* keys products/<id>/<name>)
ImageIdUrls(rows, pid) ==
    {[image_id |-> x.image_id, image_url |-> x.image_url] : x \in ImagesOf(rows, pid)}
ImageObjects(objs, pid) ==
    {o \in ProductObjects(objs, pid) : Len(o.path) = 3}
Position(s, x) == CHOOSE i \in 1..Len(s) : s[i] = x
\* an update form that keeps every image of the product, in some order, with no new file
ReorderOnly(q) ==
    /\ q.op = "update" /\ q.in # NoInput /\ q.pc # "idle"
    /\ q.in.images = 0
    /\ Len(q.in.existing_image_ids) = Cardinality(SeqToSet(q.in.existing_image_ids))
    /\ SeqToSet(q.in.existing_image_ids) =
           {x.image_id : x \in ImagesOf(q.before.productImages, q.in.product_id)}

\* C12: an update-product request that keeps every existing image (its list of
\* kept image ids is a permutation of the product's image ids) and carries no new
\* image file never removes or uploads an image object, never deletes or inserts
\* an image row, and leaves the id and URL of every image row as they were; once
\* the reordering is through, each image row's order is the position of its id in
\* the submitted list.
C12_ReorderOnly ==
    \A r \in Slots :
        LET q == req[r] IN
        ReorderOnly(q) =>
            /\ q.pc \notin {"removeOld", "deleteImages", "uploadNew", "insertNew"}
            /\ ImageIdUrls(productImages, q.in.product_id)
                   = ImageIdUrls(q.before.productImages, q.in.product_id)
            /\ ImageObjects(objects, q.in.product_id)
                   = ImageObjects(q.before.objects, q.in.product_id)
            /\ Succeeded(q) =>
                   \A x \in ImagesOf(productImages, q.in.product_id) :
                       x.image_order = Position(q.in.existing_image_ids, x.image_id) - 1

\* A successful update that swapped the two images of a product
C12_Witness ==
    \E r \in Slots :
        LET q == req[r] IN
        /\ ReorderOnly(q) /\ Succeeded(q)
        /\ Len(q.in.existing_image_ids) = 2
        /\ \E x \in ImagesOf(productImages, q.in.product_id) :
               \E y \in ImagesOf(q.before.productImages, q.in.product_id) :
                   x.image_id = y.image_id /\ x.image_order # y.image_order

\* the detail rows of a product as a reader sees them: text, image URL and order
DetailContents(rows, pid) ==
    {[detail_text |-> x.detail_text, detail_image_url |-> x.detail_image_url,
      detail_order |-> x.detail_order] : x \in ImagesOf(rows, pid)}
\* an update form with kept ids only: no image file, every detail entry without
\* a file and with the detail_id of a listed detail
KeptIdsOnly(in) ==
    /\ in.images = 0
    /\ \A i \in 1..Len(in.details) :
           /\ ~ in.details[i].image
           /\ in.details[i].detail_id \in SeqToSet(in.existing_detail_ids)
\* request r repeats the successful request before it
Resubmitted(r) ==
    /\ r > 1
    /\ Succeeded(req[r - 1]) /\ Succeeded(req[r])
    /\ req[r].op = "update" /\ req[r - 1].op = "update"
    /\ req[r].user = req[r - 1].user /\ req[r].in = req[r - 1].in
    /\ KeptIdsOnly(req[r].in)

\* C13: an update request with kept ids only that succeeded, sent again unchanged
\* after it was answered, succeeds leaving the image rows, the detail texts, image
\* URLs and orders and the asset objects as the first run left them.
C13_ResubmitNoOp ==
    \A r \in Slots :
        Resubmitted(r) =>
            LET q == req[r] IN
            /\ productImages = q.before.productImages
            /\ DetailContents(productDetails, q.in.product_id)
                   = DetailContents(q.before.productDetails, q.in.product_id)
            /\ objects = q.before.objects

\* C14: a request of an endpoint that accepts files (create or update product,
\* create or update banner) rejected for a file that is too large or not an
\* image has, when it is rejected, issued no upload or remove to the asset store
\* and no insert, update or delete to the relational store, and both stores are
\* as the request found them.
C14_FilesCheckedBeforeStores ==
    \A r \in Slots :
        LET q == req[r] IN
        (q.pc = "done" /\ q.reason = "file") =>
            /\ NothingIssued(q)
            /\ stores = <<q.before.products, q.before.productImages, q.before.productDetails,
                          q.before.banners, q.before.objects>>

\* a delete product or delete banner request that found its target and was let
\* through, now answered
DeleteAnswered(q) ==
    /\ q.op \in {"delete", "bannerDelete"} /\ q.pc = "done"
    /\ q.existing # NoRow
    /\ q.reason \notin {"auth", "validation", "notFound", "forbidden"}

\* C15: a failing list or remove call of the asset store never blocks the
\* mutation: a delete product or delete banner request that found its target and
\* passed the checks issues the delete of the row whatever the asset store
\* answered, so its outcome is that of the relational delete.
C15_AssetFailureNeverBlocks ==
    \A r \in Slots :
        DeleteAnswered(req[r]) => req[r].rowOps = 1

\* the banner a banner request names was created by another principal
BannerOfOther(q) ==
    /\ q.op \in {"bannerUpdate", "bannerDelete"} /\ q.in # NoInput
    /\ \E b \in q.before.banners : b.banner_id = q.in.banner_id /\ b.created_by # q.user

\* C16: update banner and delete banner called with an acceptable form by an
\* operator who did not create the banner end in 403 and leave the banner rows
\* and the asset objects as they were; called for a banner that does not exist
\* they end in 404.  (No store call fails.)
C16_BannerOwnership ==
    \A r \in Slots :
        LET q == req[r] IN
        (q.op \in {"bannerUpdate", "bannerDelete"} /\ q.pc = "done" /\ q.in # NoInput
         /\ q.reason \notin {"validation", "file"} /\ faults = 0) =>
            /\ BannerOfOther(q) =>
                   q.status = 403 /\ banners = q.before.banners /\ objects = q.before.objects
            /\ (\A b \in q.before.banners : b.banner_id # q.in.banner_id) => q.status = 404

FirstPosition(s, x) == CHOOSE i \in 1..Len(s) : s[i] = x /\ \A j \in 1..(i - 1) : s[j] # x
\* the listed ids that name an image row the product had
KeptImageIds(q) ==
    SeqToSet(q.in.existing_image_ids)
        \cap {x.image_id : x \in ImagesOf(q.before.productImages, q.in.product_id)}
\* the place of a kept id among the kept ids, in the order of listing
KeptRank(q, id) ==
    Cardinality({k \in KeptImageIds(q) :
        FirstPosition(q.in.existing_image_ids, k) < FirstPosition(q.in.existing_image_ids, id)})

\* C17: after a successful update product the image rows of the product are the
\* rows it had whose ids were listed, at the orders 0..k-1 in the order of
\* listing, and one new row for each new file at the orders k..k+m-1 in the
\* order of the files; every row it had whose id was not listed is gone.
C17_ImagesAfterUpdate ==
    \A r \in Slots :
        LET q == req[r] IN
        (q.op = "update" /\ Succeeded(q)) =>
            LET now == ImagesOf(productImages, q.in.product_id)
                old == {x \in now : x.image_id \in
                           {y.image_id : y \in ImagesOf(q.before.productImages, q.in.product_id)}}
                new == now \ old
                k == Cardinality(KeptImageIds(q))
            IN  /\ {x.image_id : x \in old} = KeptImageIds(q)
                /\ \A x \in old : x.image_order = KeptRank(q, x.image_id)
                /\ Cardinality(new) = q.in.images
                /\ \A x \in new :
                       x.image_order = k + Cardinality({y \in new : y.image_id < x.image_id})

\* an update request that found its product and passed the ownership check
UpdateAdmitted(q) ==
    /\ q.op = "update" /\ q.existing # NoRow /\ q.reason # "forbidden"
\* the resolved slug of an update is that of another product
SlugHeldByOther(q) ==
    \E p \in q.before.products : p.slug = q.slug /\ p.product_id # q.product_id

\* no request has arrived after request r
NoLaterRequest(r) == \A s \in Slots : s > r => req[s].pc = "idle"

\* C18: update product looks for a slug conflict only when the resolved slug
\* differs from the product's slug: an update that keeps the slug never makes the
\* lookup and never ends in a slug conflict; an update whose new slug another
\* product holds ends in 400 with both stores as it found them.
C18_SlugRecheckedWhenChanged ==
    \A r \in Slots :
        LET q == req[r] IN
        UpdateAdmitted(q) =>
            /\ q.slug = q.existing.slug => (q.pc # "slugCheck" /\ q.reason # "conflict")
            /\ (q.slug # q.existing.slug /\ SlugHeldByOther(q) /\ q.pc = "done") =>
                   /\ q.status = 400 /\ q.reason = "conflict"
                   /\ NothingIssued(q)
                   /\ NoLaterRequest(r) =>
                          stores = <<q.before.products, q.before.productImages,
                                     q.before.productDetails, q.before.banners,
                                     q.before.objects>>

\* An update that changed the title and kept the slug succeeded, and the next
\* one, asking for the slug of another product, was refused
C18_Witness ==
    \E r \in Slots \ {1} :
        LET q1 == req[r - 1]
            q2 == req[r]
        IN  /\ UpdateAdmitted(q1) /\ Succeeded(q1)
            /\ q1.slug = q1.existing.slug /\ q1.in.title # q1.existing.title
            /\ UpdateAdmitted(q2) /\ q2.pc = "done" /\ q2.reason = "conflict"
            /\ q2.slug # q2.existing.slug /\ SlugHeldByOther(q2)

\* C19: a create product request of an operator that carries no non-empty image
\* file is answered 400 as a validation failure, having inserted no row and
\* uploaded no object.
C19_CreateNeedsImage ==
    \A r \in Slots :
        LET q == req[r] IN
        (q.op = "create" /\ q.in # NoInput /\ q.in.images = 0) =>
            /\ q.pc = "done" /\ q.status = 400 /\ q.reason = "validation"
            /\ NothingIssued(q)
            /\ NoLaterRequest(r) =>
                   stores = <<q.before.products, q.before.productImages,
                              q.before.productDetails, q.before.banners, q.before.objects>>

\* A create request whose only defect is the missing image was refused
C19_Witness ==
    \E r \in Slots :
        LET q == req[r] IN
        /\ q.op = "create" /\ q.in # NoInput /\ q.in.images = 0
        /\ Len(q.in.title) >= 1 /\ q.in.price > 0 /\ q.in.filesOk
        /\ q.pc = "done" /\ q.status = 400

\* a slug as the claim describes it: not empty, letters, digits and hyphens
\* only, no hyphen at either end and no two hyphens in a row
WellFormedSlug(s) ==
    /\ s # <<>>
    /\ \A i \in 1..Len(s) : s[i] \in AlNum \cup {"-"}
    /\ s[1] # "-" /\ s[Len(s)] # "-"
    /\ \A i \in 1..(Len(s) - 1) : ~ (s[i] = "-" /\ s[i + 1] = "-")

\* C20: a create product request that carries no slug and succeeds stores, for
\* every title that is not empty, a slug derived from the title that is a
\* non-empty string of lower-case letters, digits and hyphens with no leading,
\* trailing or doubled hyphen.
C20_GeneratedSlugWellFormed ==
    \A r \in Slots :
        LET q == req[r] IN
        (q.op = "create" /\ Succeeded(q) /\ q.in.slug = <<>>) =>
            /\ q.slug = generateSlug(q.in.title)
            /\ WellFormedSlug(q.slug)
            /\ NoLaterRequest(r) =>
                   \E p \in products : p.product_id = q.product_id /\ p.slug = q.slug

\* the object a banner URL names is in the asset store
BannerObjectStored(url) ==
    Obj("banners", extractFilePathFromUrl("banners", url)) \in objects

\* C21: when an update banner request has been answered, each slot of the banner
\* names an object that is stored (the old object is removed only once the new
\* one is uploaded, so a failed upload leaves the old one), and a slot that got
\* no file keeps the URL it had.
C21_SlotUploadThenDelete ==
    \A r \in Slots :
        LET q == req[r] IN
        (q.op = "bannerUpdate" /\ q.pc = "done" /\ q.existing # NoRow /\ NoLaterRequest(r)) =>
            \A b \in {x \in banners : x.banner_id = q.product_id} :
                \A slot \in {"mobile", "desktop"} :
                    /\ BannerObjectStored(SlotUrl(b, slot))
                    /\ ~ SlotHasFile(q.in, slot) => SlotUrl(b, slot) = SlotUrl(q.existing, slot)

\* the greatest display_order among banner rows, 0 when there is none
MaxDisplayOrderIn(rows) ==
    IF rows = {} THEN 0
    ELSE (CHOOSE b \in rows : \A c \in rows : c.display_order <= b.display_order).display_order
\* the banner rows a request added
NewBanners(q) ==
    {b \in banners : \A c \in q.before.banners : c.banner_id # b.banner_id}

\* C22: a successful create banner whose form has no display_order stores the
\* greatest display_order of the banners there were plus one; a display_order in
\* the form is stored as given.
C22_DisplayOrderDefault ==
    \A r \in Slots :
        LET q == req[r] IN
        (q.op = "bannerCreate" /\ Succeeded(q) /\ NoLaterRequest(r)) =>
            \A b \in NewBanners(q) :
                b.display_order = IF q.in.order_given THEN q.in.display_order
                                  ELSE MaxDisplayOrderIn(q.before.banners) + 1

\* C23: create banner needs both images and is all or nothing.  A request that
\* lacks an image is refused with no store call.  When the request has been
\* answered and at most one store call failed (so that the removes of the
\* compensation succeeded), either it succeeded, its row is stored and the two
\* objects the row names are stored and are all it added, or there is no row
\* and no object of it.
C23_BannerCreateAllOrNothing ==
    \A r \in Slots :
        LET q == req[r]
            new == NewBanners(q)
            added == objects \ q.before.objects
        IN
        (q.op = "bannerCreate" /\ q.pc = "done" /\ q.in # NoInput /\ NoLaterRequest(r)
         /\ faults <= 1) =>
            /\ ~ (q.in.mobile /\ q.in.desktop) =>
                   q.status = 400 /\ NothingIssued(q) /\ new = {} /\ added = {}
            /\ IF Succeeded(q)
               THEN /\ Cardinality(new) = 1
                    /\ \A b \in new :
                           /\ BannerObjectStored(b.image_url_mobile)
                           /\ BannerObjectStored(b.image_url_desktop)
                           /\ added = {Obj("banners", extractFilePathFromUrl("banners", u)) :
                                          u \in {b.image_url_mobile, b.image_url_desktop}}
                           /\ Cardinality(added) = 2
               ELSE new = {} /\ added = {} /\ banners = q.before.banners

\* The row insert of a create banner failed after both uploads, and the uploads
\* were removed
C23_Witness ==
    \E r \in Slots :
        LET q == req[r] IN
        /\ q.op = "bannerCreate" /\ q.pc = "done" /\ q.reason = "insertBanner"
        /\ q.uploads = 2 /\ objects = q.before.objects

\* a sequence lists exactly the given rows, each once, in ascending display_order
ListsInOrder(res, rows) ==
    /\ SeqToSet(res) = rows
    /\ Len(res) = Cardinality(rows)
    /\ \A i \in 1..(Len(res) - 1) : res[i].display_order <= res[i + 1].display_order

ProductObjectStored(url) ==
    Obj("products", extractFilePathFromUrl("products", url)) \in objects

DetailStepFailed(q) ==
    /\ q.op = "update" /\ q.pc = "done"
    /\ q.reason \in {"deleteDetails", "uploadDetail", "insertDetails"}

\* C25: when update product fails in the reconciliation of the details (the
\* deletion of the detail rows, the upload of a detail image or the insertion of
\* the detail rows) after the reconciliation of the images succeeded, the
\* objects uploaded for the new image rows are still stored: every image row the
\* request inserted names a stored object
C25_DetailFailureKeepsImageObjects ==
    \A r \in Slots :
        LET q == req[r] IN
        (DetailStepFailed(q) /\ NoLaterRequest(r)) =>
            \A x \in NewImageRows(q) : ProductObjectStored(x.image_url)


\* the detail ids of an update form that identified a detail of the product
\* when the request arrived
KeptDetailIds(q) ==
    SeqToSet(q.in.existing_detail_ids)
        \cap {x.detail_id : x \in ImagesOf(q.before.productDetails, q.in.product_id)}

\* C26: update product neither deletes nor re-inserts a kept child row: after a
\* successful update every id listed in existing_image_ids, and every id listed
\* in existing_detail_ids, that identified a row of the product before the
\* request still identifies a row of that product
C26_KeptRowsKeepTheirIds ==
    \A r \in Slots :
        LET q == req[r] IN
        (q.op = "update" /\ Succeeded(q) /\ faults = 0 /\ NoLaterRequest(r)) =>
            /\ KeptImageIds(q)
                   \subseteq {x.image_id : x \in ImagesOf(productImages, q.in.product_id)}
            /\ KeptDetailIds(q)
                   \subseteq {x.detail_id : x \in ImagesOf(productDetails, q.in.product_id)}


\* C27: when update product fails in the upload of a detail image or in the
\* insertion of the detail rows, the product still has, when the request
\* returns, a detail row for every id that was listed in existing_detail_ids and
\* identified a detail of the product before the request
C27_FailedUpdateKeepsKeptDetails ==
    \A r \in Slots :
        LET q == req[r] IN
        (/\ q.op = "update" /\ q.pc = "done"
         /\ q.reason \in {"uploadDetail", "insertDetails"}
         /\ NoLaterRequest(r)) =>
            KeptDetailIds(q)
                \subseteq {x.detail_id : x \in ImagesOf(productDetails, q.in.product_id)}


\* C28: after a successful update product in which no store call failed, every
\* detail row of the product that has an image URL names an object that is in
\* the asset store, whatever existing_detail_ids and the detail_id of the details
\* entries are
C28_DetailUrlsNameObjects ==
    \A r \in Slots :
        LET q == req[r] IN
        (q.op = "update" /\ Succeeded(q) /\ faults = 0 /\ NoLaterRequest(r)) =>
            \A x \in ImagesOf(productDetails, q.in.product_id) :
                x.detail_image_url # NULL => ProductObjectStored(x.detail_image_url)


\* the image URLs of banner id in a set of banner rows
BannerUrls(rows, id) ==
    {<<b.image_url_mobile, b.image_url_desktop>> : b \in {x \in rows : x.banner_id = id}}

\* C29: when update banner fails after it uploaded a new object (the desktop
\* file is rejected or its upload fails after the upload of the mobile file, or
\* the update of the banner row fails), every object the request uploaded has
\* been removed when the response is returned and the image URLs of the banner
\* row are those it had before
C29_BannerUpdateFailureCompensated ==
    \A r \in Slots :
        LET q == req[r] IN
        (/\ q.op = "bannerUpdate" /\ q.pc = "done"
         /\ q.reason \in {"file", "upload", "updateBanner"}
         /\ q.uploads > 0
         /\ NoLaterRequest(r)) =>
            /\ \A k \in 1..Len(q.uploadedFiles) :
                   Obj("banners", q.uploadedFiles[k]) \notin objects
            /\ BannerUrls(banners, q.product_id) = BannerUrls(q.before.banners, q.product_id)


\* the image and detail rows of the products other than pid
RowsOfOthers(rows, pid) == {x \in rows : x.product_id # pid}
\* the objects that the image and detail rows of the products other than pid name
ObjectsOfOthers(imgs, dets, pid) ==
    {Obj("products", extractFilePathFromUrl("products", x.image_url)) :
        x \in RowsOfOthers(imgs, pid)}
    \cup {Obj("products", extractFilePathFromUrl("products", x.detail_image_url)) :
            x \in {y \in RowsOfOthers(dets, pid) : y.detail_image_url # NULL}}

\* C30: an update product request for product P neither deletes, reorders nor
\* changes an image or detail row of another product, and removes no object
\* that a row of another product names, whatever ids existing_image_ids,
\* existing_detail_ids and the details entries carry
C30_OtherProductsUntouched ==
    \A r \in Slots :
        LET q == req[r] IN
        (q.op = "update" /\ q.existing # NoRow /\ NoLaterRequest(r)) =>
            /\ RowsOfOthers(productImages, q.product_id)
                   = RowsOfOthers(q.before.productImages, q.product_id)
            /\ RowsOfOthers(productDetails, q.product_id)
                   = RowsOfOthers(q.before.productDetails, q.product_id)
            /\ (ObjectsOfOthers(q.before.productImages, q.before.productDetails,
                                q.product_id) \cap q.before.objects) \subseteq objects

\* an update of product 2 that lists an image of product 1 and a details entry
\* with a new file for a detail of product 1 has succeeded and changed the store
C30_Witness ==
    \E r \in Slots :
        LET q == req[r] IN
        /\ q.op = "update" /\ Succeeded(q) /\ q.product_id = 2
        /\ 1 \in SeqToSet(q.in.existing_image_ids)
        /\ \E k \in 1..Len(q.in.details) :
               q.in.details[k].detail_id = 1 /\ q.in.details[k].image
        /\ productImages # q.before.productImages
        /\ productDetails # q.before.productDetails


\* a loader that reads a product for editing has answered an operator's
\* request for a product_id that is a number
EditReadAnswered(q) ==
    /\ q.op \in {"updateLoader", "editLoader"} /\ q.pc = "done"
    /\ requireAdminEmail(q.user) = 0
    /\ q.in.isNumber

\* C31: a read of a product for editing (the loader of the edit page and the
\* loader of the update endpoint) returns the product with its images and
\* details only when the product's created_by is the caller; it answers 404
\* when the product does not exist and 403 when another principal created it
C31_EditReadsOwnerOnly ==
    \A r \in Slots :
        LET q == req[r]
            found == {p \in q.before.products : p.product_id = q.product_id}
        IN  EditReadAnswered(q) =>
                IF found = {} THEN q.status = 404
                ELSE IF \E p \in found : p.created_by = q.user
                THEN q.status = 200 /\ q.result[1] \in found
                ELSE q.status = 403 /\ q.result = <<>>


\* one step keeps the created_by of every product and banner row it leaves in
\* place, and a row it adds carries the user of a create request under way
CreatedByKept ==
    /\ \A p \in products : \A p2 \in products' :
           p2.product_id = p.product_id => p2.created_by = p.created_by
    /\ \A b \in banners : \A b2 \in banners' :
           b2.banner_id = b.banner_id => b2.created_by = b.created_by
    /\ \A p2 \in products' :
           (\A p \in products : p.product_id # p2.product_id) =>
               \E r \in Slots : req[r].op = "create" /\ req[r].user = p2.created_by
    /\ \A b2 \in banners' :
           (\A b \in banners : b.banner_id # b2.banner_id) =>
               \E r \in Slots : req[r].op = "bannerCreate" /\ req[r].user = b2.created_by

\* C32: the created_by of a product and of a banner is the id of the principal
\* whose request created it, and no update, toggle or reconciliation changes it
\* afterwards
C32_CreatedByImmutable == [][CreatedByKept]_vars

\* an operator has updated a banner that another principal created: the row is
\* written and still carries its creator
C32_Witness ==
    \E r \in Slots :
        LET q == req[r] IN
        /\ q.op = "bannerUpdate" /\ Succeeded(q)
        /\ \E b \in banners :
               /\ b.banner_id = q.product_id /\ b.created_by # q.user
               /\ b \notin q.before.banners


\* the scalar fields an update request writes, and those of a product row
ScalarsOf(q) == <<q.in.title, q.in.price, q.slug>>
RowScalars(p) == <<p.title, p.price, p.slug>>
\* every slot holds a successful update of the same product
AllUpdatedSame ==
    /\ \A r \in Slots : req[r].op = "update" /\ Succeeded(req[r])
    /\ \A r, s \in Slots : req[r].product_id = req[s].product_id

\* C33: when the update product requests on one product run side by side and
\* all succeed, the scalar fields of the product row are afterwards the whole
\* set of scalar fields of one of the requests, never fields of several
C33_LastWriteWinsWhole ==
    AllUpdatedSame =>
        \A p \in products :
            p.product_id = req[1].product_id =>
                \E r \in Slots : RowScalars(p) = ScalarsOf(req[r])

\* two updates of one product with different titles and prices have both
\* succeeded, each having found the same product rows when it arrived
C33_Witness ==
    /\ AllUpdatedSame
    /\ \E r, s \in Slots :
           /\ ScalarsOf(req[r])[1] # ScalarsOf(req[s])[1]
           /\ ScalarsOf(req[r])[2] # ScalarsOf(req[s])[2]
           /\ req[s].before.products = req[r].before.products
    /\ \E p \in products : p.product_id = req[1].product_id


\* a product row without its sold_out column
WithoutSoldOut(p) ==
    [product_id |-> p.product_id, title |-> p.title, price |-> p.price,
     slug |-> p.slug, created_by |-> p.created_by]
\* rows and now differ at most in the sold_out of product pid
OnlySoldOutOf(rows, pid) ==
    /\ {WithoutSoldOut(p) : p \in products} = {WithoutSoldOut(p) : p \in rows}
    /\ \A p \in products : \A p0 \in rows :
           (p.product_id = p0.product_id /\ p.product_id # pid) => p.sold_out = p0.sold_out
\* the toggle of request q has left the store as a toggle may
ToggleFrame(q) ==
    /\ q.objOps = 0
    /\ productImages = q.before.productImages
    /\ productDetails = q.before.productDetails
    /\ objects = q.before.objects
    /\ banners = q.before.banners
    /\ OnlySoldOutOf(q.before.products, q.product_id)
    /\ Succeeded(q) =>
           /\ q.sold_out = ~ SoldOutIn(q.before.products, q.product_id)
           /\ SoldOutIn(products, q.product_id) = q.sold_out
\* every slot holds a successful toggle of the same product
AllToggledSame ==
    /\ \A r \in Slots : req[r].op = "toggle" /\ Succeeded(req[r])
    /\ \A r, s \in Slots : req[r].product_id = req[s].product_id

\* C34: toggle sold-out changes the sold_out column of its product and nothing
\* else, and calls the asset store never; its response carries the value it
\* wrote; two toggles of one product, one after the other, restore the value
\* found first (an even number of them does, an odd number does not); update
\* product leaves sold_out of every product as it was
C34_ToggleFrame ==
    /\ \A r \in Slots :
           (req[r].op = "toggle" /\ NoLaterRequest(r)) => ToggleFrame(req[r])
    /\ AllToggledSame =>
           (SoldOutIn(products, req[1].product_id)
                = SoldOutIn(req[1].before.products, req[1].product_id))
               <=> (MaxSlots % 2 = 0)
    /\ \A r \in Slots :
           (req[r].op = "update" /\ NoLaterRequest(r)) =>
               \A p \in products : \A p0 \in req[r].before.products :
                   p.product_id = p0.product_id => p.sold_out = p0.sold_out

\* two toggles of one product, one after the other, have both succeeded
C34_Witness ==
    /\ AllToggledSame
    /\ SoldOutIn(req[MaxSlots].before.products, req[1].product_id)
           # SoldOutIn(req[1].before.products, req[1].product_id)


\* the detail of the product, as found at arrival, that a details entry names
MatchedDetail(q, d) ==
    {x \in ImagesOf(q.before.productDetails, q.product_id) :
        d.detail_id # 0 /\ x.detail_id = d.detail_id}
\* one step of the details loop: the upload for an entry that replaces an image
\* is entered from the removal of the old object, whatever that removal answered
RemovalBeforeUpload ==
    \A r \in Slots :
        LET q == req[r]
            q2 == req'[r]
        IN  /\ (/\ q2.op = "update" /\ q2.pc = "detailUpload"
                /\ (q.pc # "detailUpload" \/ q.i # q2.i)
                /\ OldDetailPath(q2, q2.i + 1) # NULL) =>
                   (q.pc = "detailRemoveOld" /\ q2.objOps = q.objOps + 1)
            /\ (q.op = "update" /\ q.pc = "detailRemoveOld" /\ q2 # q) =>
                   (q2.pc = "detailUpload" /\ q2.i = q.i)
\* the detail rows of a successful update carry, entry by entry, the URL of the
\* new object, the URL of the matched detail, or none
DetailUrlsAsSubmitted ==
    \A r \in Slots :
        LET q == req[r] IN
        (/\ q.op = "update" /\ Succeeded(q) /\ NoLaterRequest(r)
         /\ Len(q.in.details) > 0) =>
            \A k \in 1..Len(q.in.details) :
                LET d == q.in.details[k]
                    rows == {x \in ImagesOf(productDetails, q.product_id) :
                                x.detail_order = k - 1}
                    old == {x \in MatchedDetail(q, d) : x.detail_image_url # NULL}
                IN  /\ Cardinality(rows) = 1
                    /\ \A x \in rows :
                         IF d.image
                         THEN /\ x.detail_image_url # NULL
                              /\ \A y \in old : x.detail_image_url # y.detail_image_url
                              /\ \E j \in 1..Len(q.uploadedFiles) :
                                     x.detail_image_url
                                         = getPublicUrl("products", q.uploadedFiles[j])
                         ELSE IF old # {}
                         THEN \A y \in old : x.detail_image_url = y.detail_image_url
                         ELSE x.detail_image_url = NULL

\* C35: in update product, for a details entry with a new image and the
\* detail_id of a detail that has an image, the removal of the old object is
\* issued, its failure ignored, before the upload of the new one, and the row
\* names the new object; an entry with a matching detail_id and no new image
\* keeps the URL of the matched detail; an entry with neither has no URL
C35_DetailImageReplacement == [][RemovalBeforeUpload]_vars /\ [] DetailUrlsAsSubmitted

\* a successful update has replaced the image of a detail that had one: the
\* old object is gone and a detail row of the product names a stored object
C35_Witness ==
    \E r \in Slots :
        LET q == req[r] IN
        /\ q.op = "update" /\ Succeeded(q) /\ faults = 0
        /\ \E k \in 1..Len(q.in.details) :
               /\ q.in.details[k].image
               /\ \E y \in MatchedDetail(q, q.in.details[k]) :
                      /\ y.detail_image_url # NULL
                      /\ ~ ProductObjectStored(y.detail_image_url)
        /\ \E x \in ImagesOf(productDetails, q.product_id) :
               x.detail_image_url # NULL /\ ProductObjectStored(x.detail_image_url)


\* delete banner has reached its row delete, or gone past it
RowDeleteReached(q) ==
    /\ q.op = "bannerDelete"
    /\ q.pc = "deleteBanner" \/ q.rowOps > 0

\* C36: delete banner issues a remove for the mobile and for the desktop object
\* before it deletes the row; after a successful delete the row is gone and,
\* when no store call failed, neither object is stored; when the row delete
\* fails the request reports a failure and the row is still there
C36_BannerDelete ==
    \A r \in Slots :
        LET q == req[r] IN
        (q.op = "bannerDelete" /\ NoLaterRequest(r)) =>
            /\ RowDeleteReached(q) => q.objOps = 2
            /\ q.pc \in {"removeMobile", "removeDesktop"} =>
                   (q.rowOps = 0 /\ q.existing \in banners)
            /\ Succeeded(q) =>
                   /\ q.rowOps = 1
                   /\ ~ BannerExists(q.product_id)
                   /\ faults = 0 =>
                          /\ ~ BannerObjectStored(q.existing.image_url_mobile)
                          /\ ~ BannerObjectStored(q.existing.image_url_desktop)
            /\ (q.pc = "done" /\ q.rowOps = 1 /\ ~ Succeeded(q)) =>
                   (q.status \in {400, 500} /\ q.existing \in banners)

\* a banner with two stored objects has been deleted with no store failure
C36_Witness ==
    \E r \in Slots :
        LET q == req[r] IN
        /\ q.op = "bannerDelete" /\ Succeeded(q) /\ faults = 0
        /\ Obj("banners", extractFilePathFromUrl("banners", q.existing.image_url_mobile))
               \in q.before.objects
        /\ Obj("banners", extractFilePathFromUrl("banners", q.existing.image_url_desktop))
               \in q.before.objects
        /\ ~ BannerExists(q.product_id)


Mutations ==
    {"create", "update", "delete", "toggle", "bannerCreate", "bannerUpdate", "bannerDelete"}
\* the new files of the form of a request that has uploaded
NewFiles(q) ==
    IF q.op \in {"create", "update"}
    THEN q.in.images
           + Cardinality({k \in 1..Len(q.in.details) : q.in.details[k].image})
    ELSE IF q.op = "bannerCreate" THEN 2
    ELSE IF q.op = "bannerUpdate"
    THEN (IF q.in.mobile THEN 1 ELSE 0) + (IF q.in.desktop THEN 1 ELSE 0)
    ELSE 0
\* the rows and objects a request found for the products and banners
FoundRows(q) ==
    Cardinality(q.before.productImages) + Cardinality(q.before.productDetails)
\* a ceiling of the store calls of one request: a few calls for each new file,
\* for each child row found, and for the parent row and the compensation
StoreCallCeiling(q) == 3 * (IF q.uploads > 0 THEN NewFiles(q) ELSE 0) + 2 * FoundRows(q) + 6
BoundedCalls ==
    \A r \in Slots :
        LET q == req[r] IN
        q.op \in Mutations =>
            /\ q.uploads > 0 => q.uploads <= NewFiles(q)
            /\ Len(q.uploadedFiles) <= q.uploads
            /\ q.rowOps + q.objOps <= StoreCallCeiling(q)
\* the store call a request is about to issue: the removal of its uploaded
\* files, in line or in the catch block, is one and the same call
CallOf(q) ==
    IF q.pc \in {"cleanup", "catchCleanup"} THEN <<"removeUploaded", 0>> ELSE <<q.pc, q.i>>
\* nothing of a request changes once it has answered
AnsweredOnce ==
    \A r \in Slots : req[r].pc = "done" => req'[r] = req[r]
\* the step of request r is a store call that failed
CallFailed(r) == req'[r] # req[r] /\ faults' = faults + 1
\* a failed store call is not the call the request issues next
NoRetry ==
    \A r \in Slots :
        (req[r].op \in Mutations /\ CallFailed(r)) =>
            (req'[r].pc = "done" \/ CallOf(req'[r]) # CallOf(req[r]))
\* the same, but for the removal of the uploaded files, which the catch block
\* issues once more when the removal in line has thrown
NoRetryButCleanup ==
    \A r \in Slots :
        (req[r].op \in Mutations /\ CallFailed(r)) =>
            \/ req'[r].pc = "done"
            \/ CallOf(req'[r]) # CallOf(req[r])
            \/ req[r].pc = "cleanup" /\ req'[r].pc = "catchCleanup"
\* every request under way is answered
Answered ==
    \A r \in Slots : (req[r].pc # "idle") ~> (req[r].pc = "done")

====
